---- MODULE Spec2Model ----
(***************************************************************************)
(* A model of the registry tdb backend, source/registry/reg_backend_db.c:  *)
(* the subkey, value and security descriptor records that regdb_store_keys,*)
(* regdb_fetch_keys, regdb_store_values, regdb_fetch_values,               *)
(* regdb_set_secdesc and regdb_get_secdesc keep in registry.tdb, and the   *)
(* sequence number stamps of the fetched containers; the reference        *)
(* counted handle of regdb_init, regdb_open and regdb_close; and the       *)
(* configuration calls of source/libnet/libnet_conf.c on the services      *)
(* below KEY_SMBCONF.                                                      *)
(*                                                                         *)
(* A C string is a sequence of symbols.  A symbol is one character, or a   *)
(* run of equal upper case characters written as one symbol ("R254" is 254 *)
(* times the letter R, "R249" 249 times), so that a name of 255 characters *)
(* is a sequence of two symbols.  StrLen is the length in bytes.           *)
(***************************************************************************)
EXTENDS Integers, Sequences, FiniteSets, TLC

VARIABLES
    tdb,        \* the committed records of registry.tdb: physical key -> TDB_DATA
    seqnum,     \* the committed tdb sequence number
    txn,        \* the process that holds the transaction lock, or NoProc
    wlock,      \* the process that holds the write lock of a commit, or NoProc
    rlocks,     \* the processes that hold a chain read lock
    commits,    \* history: the number of transactions committed since the
                \* initial state
    lastStore,  \* history: the regdb_store_keys call that committed last, if no
                \* other transaction has committed since; seeded when the last
                \* transaction committed was that of an init_registry_data
                \* of which no step failed
    ps,         \* per process: the position in its call, its arguments and results
    tdb_reg,    \* the static handle of the calling process: NULL_REG, or the
                \* number of the connection tdb_wrap_open returned
    tdb_refcount, \* the static reference count of the calling process
    smbconf,    \* the registry below KEY_SMBCONF as libnet_conf sees it: the
                \* service keys and, for each, its values (name -> string)
    smbconf_keys, \* the subkey list of KEY_SMBCONF: the names of the service
                \* keys in the order the registry stores them
    lastConf,   \* history: the last libnet_conf call, its arguments, its
                \* result and the smbconf it found
    handles     \* history: held, the successful regdb_init and regdb_open calls
                \* not yet closed; conns, the connections opened so far;
                \* pending, a regdb_init is inside init_registry_data; last,
                \* the last call on the handle and what it found

hvars == <<tdb_reg, tdb_refcount, handles>>

cvars == <<smbconf, smbconf_keys, lastConf>>

vars == <<tdb, seqnum, txn, wlock, rlocks, commits, lastStore, ps, tdb_reg, tdb_refcount,
          handles, smbconf, smbconf_keys, lastConf>>

(***************************************************************************)
(* Strings                                                                 *)
(***************************************************************************)

Width(c) ==
    CASE c = "R254" -> 254
      [] c = "R249" -> 249
      [] c = "SAMBA_REGVAL" -> 12
      [] c = "SAMBA_SECDESC" -> 13
      [] OTHER -> 1

RECURSIVE StrLen(_)
StrLen(s) == IF s = <<>> THEN 0 ELSE Width(Head(s)) + StrLen(Tail(s))

toupper(c) ==
    CASE c = "a" -> "A"
      [] c = "b" -> "B"
      [] c = "c" -> "C"
      [] c = "d" -> "D"
      [] c = "k" -> "K"
      [] c = "u" -> "U"
      [] c = "v" -> "V"
      [] c = "w" -> "W"
      [] c = "x" -> "X"
      [] c = "y" -> "Y"
      [] c = "z" -> "Z"
      [] OTHER -> c

\* a conversion that keeps the case
KeepCase(s) == s

\* a substitution that exchanges the two delimiters
SwapDelimiters(s) ==
    [i \in 1..Len(s) |-> IF s[i] = "\\" THEN "/" ELSE IF s[i] = "/" THEN "\\" ELSE s[i]]

strupper_m(s) == [i \in 1..Len(s) |-> toupper(s[i])]

\* talloc_string_sub(ctx, path, "\\", "/")
talloc_string_sub(s) == [i \in 1..Len(s) |-> IF s[i] = "\\" THEN "/" ELSE s[i]]

\* regdb_fetch_keys, "convert to key format"
FetchKeysPath(key) == strupper_m(talloc_string_sub(key))

normalize_reg_path(keyname) == strupper_m(talloc_string_sub(keyname))

normalize_dbkey(key) == strupper_m(talloc_string_sub(key))

strequal(s1, s2) == strupper_m(s1) = strupper_m(s2)

REG_VALUE_PREFIX == <<"SAMBA_REGVAL">>

REG_SECDESC_PREFIX == <<"SAMBA_SECDESC">>

\* talloc_asprintf(ctx, "%s/%s", key, name)
PathOf(key, name) == key \o <<"/">> \o name

\* talloc_asprintf(ctx, "%s/%s", REG_VALUE_PREFIX, key), normalized
ValueKey(key) == normalize_reg_path(PathOf(REG_VALUE_PREFIX, key))

\* asprintf(&tdbkey, "%s/%s", REG_SECDESC_PREFIX, key), normalized
SecdescKey(key) == normalize_dbkey(PathOf(REG_SECDESC_PREFIX, key))

(***************************************************************************)
(* REGSUBKEY_CTR and REGVAL_CTR                                            *)
(***************************************************************************)

\* TALLOC_ZERO_P(ctx, REGSUBKEY_CTR)
ZeroSubkeyCtr == [subkeys |-> <<>>, seqnum |-> 0]

regsubkey_ctr_numkeys(ctr) == Len(ctr.subkeys)

regsubkey_ctr_key_exists(ctr, keyname) ==
    \E i \in 1..Len(ctr.subkeys) : strequal(ctr.subkeys[i], keyname)

regsubkey_ctr_addkey(ctr, keyname) ==
    IF regsubkey_ctr_key_exists(ctr, keyname)
    THEN ctr
    ELSE [ctr EXCEPT !.subkeys = Append(@, keyname)]

\* TALLOC_ZERO_P(ctx, REGVAL_CTR)
ZeroValCtr == [values |-> <<>>, seqnum |-> 0]

regval_ctr_numvals(ctr) == Len(ctr.values)

regval_ctr_key_exists(ctr, value) ==
    \E i \in 1..Len(ctr.values) : strequal(ctr.values[i].valuename, value)

regval_ctr_addvalue(ctr, name, type, data_p) ==
    LET Other(v) == ~strequal(v.valuename, name)
    IN  [ctr EXCEPT !.values =
            Append(SelectSeq(@, Other),
                   [valuename |-> name, type |-> type,
                    size |-> Len(data_p), data_p |-> data_p])]

(***************************************************************************)
(* TDB_DATA and the tdb_pack / tdb_unpack buffers                          *)
(*                                                                         *)
(* A buffer holds fields at byte offsets.  A field ("cell") is a 4 byte    *)
(* integer ("d"), a NUL terminated string ("f"), a 4 byte length followed  *)
(* by that many bytes ("B"), or a marshalled security descriptor ("sd").   *)
(* Only whole fields are kept: bytes that were never written, or a field   *)
(* that was cut or partly overwritten, are bytes of unknown content.       *)
(* The lengths are uint32 in the code; no length of the model comes near   *)
(* 2^32, and an offset below 0 stands for the wrapped offset, which lies   *)
(* outside every buffer just the same.                                     *)
(***************************************************************************)

NoStr == <<>>

CellD(n) == [kind |-> "d", num |-> n, str |-> NoStr, dat |-> <<>>]

CellF(s) == [kind |-> "f", num |-> 0, str |-> s, dat |-> <<>>]

CellB(bytes) == [kind |-> "B", num |-> Len(bytes), str |-> NoStr, dat |-> bytes]

CellSD(sd) == [kind |-> "sd", num |-> 0, str |-> <<sd>>, dat |-> <<>>]

CellSize(c) ==
    CASE c.kind = "d" -> 4
      [] c.kind = "f" -> StrLen(c.str) + 1
      [] c.kind = "B" -> 4 + c.num
      [] OTHER -> 20

At(off, c) == [off |-> off, cell |-> c]

Overlaps(a, off, size) == a.off < off + size /\ off < a.off + CellSize(a.cell)

\* memcpy of one field into the buffer at off
BufWrite(cells, off, c) ==
    {a \in cells : ~Overlaps(a, off, CellSize(c))} \cup {At(off, c)}

\* tdb_pack(buf + off, bufsize, fmt, ...) for one field: the field is written only
\* when it fits, the length it needs is returned either way
tdb_pack(cells, off, bufsize, c) ==
    [ret   |-> CellSize(c),
     cells |-> IF bufsize # 0 /\ bufsize >= CellSize(c)
               THEN BufWrite(cells, off, c) ELSE cells]

NULL_DATA == [dptr |-> FALSE, dsize |-> 0, cells |-> {}]

\* dbuf.dptr = buffer; dbuf.dsize = len
MakeData(cells, len) ==
    [dptr |-> TRUE, dsize |-> len,
     cells |-> {a \in cells : a.off + CellSize(a.cell) <= len}]

CellsAt(data, off, kind) == {a \in data.cells : a.off = off /\ a.cell.kind = kind}

TheCell(S) == (CHOOSE a \in S : TRUE).cell

\* the byte at off is known to be 0: the terminator of a string, or the high
\* byte of a small integer
ByteIsNul(data, off) ==
    /\ off < data.dsize
    /\ \E a \in data.cells :
          /\ off = a.off + CellSize(a.cell) - 1
          /\ \/ a.cell.kind = "f"
             \/ a.cell.kind = "d" /\ a.cell.num < 16777216

FSTRING_LEN == 256

\* tdb_unpack(buf + off, bufsize, "d", &d); d keeps its old value on no_space
tdb_unpack_d(data, off, old) ==
    LET S == CellsAt(data, off, "d")
    IN  IF off + 4 <= data.dsize /\ S # {}
        THEN [ret |-> 4, d |-> TheCell(S).num]
        ELSE IF off + 4 <= data.dsize
             THEN [ret |-> 4, d |-> old]
             ELSE [ret |-> -1, d |-> old]

\* tdb_unpack(buf + off, bufsize, "f", s); s keeps its old content on no_space
tdb_unpack_f(data, off, old) ==
    LET S == CellsAt(data, off, "f")
    IN  IF S # {} /\ CellSize(TheCell(S)) <= FSTRING_LEN
             /\ off + CellSize(TheCell(S)) <= data.dsize
        THEN [ret |-> CellSize(TheCell(S)), s |-> TheCell(S).str]
        ELSE IF S = {} /\ ByteIsNul(data, off)
             THEN [ret |-> 1, s |-> <<>>]
             ELSE [ret |-> -1, s |-> old]

(***************************************************************************)
(* The tdb as one call sees it                                             *)
(*                                                                         *)
(* A call works on a context st: view is the content of the tdb the call   *)
(* reads and writes (inside a transaction: the transaction's own view),    *)
(* seq is its sequence number, ok is FALSE once a step has failed, n counts the steps that can fail    *)
(* (an allocation, a tdb_store, a tdb_delete) and the step number fault    *)
(* is the one that fails (0: none does).                                   *)
(***************************************************************************)

Ctx(view, seq, fault) ==
    [view |-> view, seq |-> seq, ok |-> TRUE, n |-> 0, fault |-> fault, txerr |-> FALSE]

\* one step that can fail, and leaves newview when it does not
Try(st, newview) ==
    IF ~st.ok THEN st
    ELSE IF st.n + 1 = st.fault
         THEN [st EXCEPT !.ok = FALSE, !.n = @ + 1]
         ELSE [st EXCEPT !.view = newview, !.n = @ + 1]

\* talloc, malloc, realloc
Alloc(st) == Try(st, st.view)

\* a tdb_store or tdb_delete in a transaction: one that fails leaves the
\* transaction with an error pending, which makes the commit fail
TdbWrite(st, newview) ==
    LET r == Try(st, newview)
    IN  [r EXCEPT !.txerr = st.txerr \/ (st.ok /\ ~r.ok)]

tdb_fetch_bystring(db, k) == IF k \in DOMAIN db THEN db[k] ELSE NULL_DATA

Put(db, k, data) == [x \in DOMAIN db \cup {k} |-> IF x = k THEN data ELSE db[x]]

\* a delete that leaves the record in place
KeepRecord(db, k) == db

Del(db, k) == [x \in DOMAIN db \ {k} |-> db[x]]

\* a delete that fails for a record that does not exist
DeleteNeedsRecord(db, k, done) == done /\ k \in DOMAIN db

\* the result of the delete of tdb_trans_delete: done is FALSE when the step
\* fails; the delete of a record that does not exist succeeds
tdb_trans_delete(db, k, done) == done

tdb_store_bystring(st, k, data) == TdbWrite(st, Put(st.view, k, data))

tdb_delete_bystring(st, k) == TdbWrite(st, Del(st.view, k))

(***************************************************************************)
(* regdb_store_keys_internal: pack the subkey names and write the record   *)
(***************************************************************************)

InitialBufLen == 1024

\* pk = [cells, buflen, len]: the buffer, its size and the bytes used so far
RECURSIVE PackKeysLoop(_, _, _, _)
PackKeysLoop(st, pk, ctr, i) ==
    IF ~st.ok \/ i > regsubkey_ctr_numkeys(ctr)
    THEN [st |-> st, pk |-> pk]
    ELSE LET c    == CellF(ctr.subkeys[i])
             r1   == tdb_pack(pk.cells, pk.len, pk.buflen - pk.len, c)
             len1 == pk.len + r1.ret
         IN  IF len1 > pk.buflen
             THEN \* allocate some extra space
                  LET st2     == Alloc(st)
                      buflen2 == len1 * 2
                      r2      == tdb_pack(r1.cells, len1, buflen2 - len1, c)
                  IN  IF ~st2.ok
                      THEN [st |-> st2, pk |-> pk]
                      ELSE PackKeysLoop(st2,
                                        [cells |-> r2.cells, buflen |-> buflen2,
                                         len |-> r2.ret],
                                        ctr, i + 1)
             ELSE PackKeysLoop(st,
                               [cells |-> r1.cells, buflen |-> pk.buflen, len |-> len1],
                               ctr, i + 1)

\* the record regdb_store_keys_internal builds for ctr (no step failing)
PackedKeys(st, ctr) ==
    LET r0 == tdb_pack({}, 0, InitialBufLen, CellD(regsubkey_ctr_numkeys(ctr)))
    IN  PackKeysLoop(st, [cells |-> r0.cells, buflen |-> InitialBufLen, len |-> r0.ret],
                     ctr, 1)

regdb_store_keys_internal(st, key, ctr) ==
    LET st1     == Alloc(st)                     \* talloc_strdup(ctx, key)
        keyname == normalize_reg_path(key)
        st2     == Alloc(st1)                    \* SMB_MALLOC(1024)
        p       == PackedKeys(st2, ctr)
    IN  tdb_store_bystring(p.st, keyname, MakeData(p.pk.cells, p.pk.len))

(***************************************************************************)
(* regdb_fetch_keys                                                        *)
(*                                                                         *)
(* u is what the uninitialised locals hold: u.num for num_items, u.name    *)
(* for the fstring subkeyname.  env is what the call meets: env.alloc is   *)
(* FALSE when talloc_strdup or talloc_string_sub returns NULL, env.locked  *)
(* is FALSE when tdb_read_lock_bystring_with_timeout fails.                *)
(***************************************************************************)

EnvOk == [alloc |-> TRUE, locked |-> TRUE]

RECURSIVE UnpackKeysLoop(_, _, _, _, _, _)
UnpackKeysLoop(data, i, num_items, len, subkeyname, ctr) ==
    IF i >= num_items THEN ctr
    ELSE LET r == tdb_unpack_f(data, len, subkeyname)
         IN  UnpackKeysLoop(data, i + 1, num_items, len + r.ret, r.s,
                            regsubkey_ctr_addkey(ctr, r.s))

\* a decoding that reports no record as a record without names
AbsentAsEmpty(dbuf, ctr, u) == [ret |-> 0, ctr |-> ctr]

\* lines 655-677: decode dbuf into ctr; the result is [ret, ctr]
FetchKeysDecode(dbuf, ctr, u) ==
    IF ~dbuf.dptr
    THEN [ret |-> -1, ctr |-> ctr]
    ELSE LET r == tdb_unpack_d(dbuf, 0, u.num)
         IN  [ret |-> r.d,
              ctr |-> UnpackKeysLoop(dbuf, 0, r.d, r.ret, u.name, ctr)]

\* regdb_fetch_keys as one step on the view db at sequence number seq
regdb_fetch_keys(db, seq, key, ctr, u, env) ==
    IF ~env.alloc
    THEN [ret |-> -1, ctr |-> ctr]
    ELSE IF ~env.locked
         THEN [ret |-> 0, ctr |-> ctr]
         ELSE FetchKeysDecode(tdb_fetch_bystring(db, FetchKeysPath(key)),
                              [ctr EXCEPT !.seqnum = seq], u)

(***************************************************************************)
(* regdb_store_keys                                                        *)
(***************************************************************************)

\* a comparison that never finds the lists equal
KeysDiffer(ctr, old_subkeys) == FALSE

\* a comparison that finds two lists without names equal
KeysSameLength(ctr, old_subkeys) == Len(ctr.subkeys) = Len(old_subkeys.subkeys)

\* lines 457-474: nothing changed, no point to even start a tdb transaction
KeysUnchanged(ctr, old_subkeys) ==
    /\ Len(ctr.subkeys) # 0 /\ Len(old_subkeys.subkeys) # 0
    /\ Len(ctr.subkeys) = Len(old_subkeys.subkeys)
    /\ \A i \in 1..Len(ctr.subkeys) : ctr.subkeys[i] = old_subkeys.subkeys[i]

\* the call whose error is ignored: the context stays ok
IgnoreError(st, r) == IF st.ok THEN [r EXCEPT !.ok = TRUE] ELSE st

\* a cascade that leaves the records of the removed key in place
KeepRemovedKey(st, key, oldkeyname) == st

\* lines 516-546: delete the subkey record and the value record of key/oldkeyname
DeleteRemovedKey(st, key, oldkeyname) ==
    LET s1 == Alloc(st)                          \* talloc_asprintf
        s2 == Alloc(s1)                          \* normalize_reg_path
        s3 == tdb_delete_bystring(s2, normalize_reg_path(PathOf(key, oldkeyname)))
        s4 == Alloc(s3)                          \* talloc_asprintf
        s5 == Alloc(s4)                          \* normalize_reg_path
    IN  IgnoreError(s5, tdb_delete_bystring(s5, ValueKey(PathOf(key, oldkeyname))))

\* lines 502-547: now delete removed keys
RECURSIVE DeleteRemovedKeys(_, _, _, _, _)
DeleteRemovedKeys(st, key, ctr, old_subkeys, i) ==
    IF ~st.ok \/ i > regsubkey_ctr_numkeys(old_subkeys) THEN st
    ELSE IF regsubkey_ctr_key_exists(ctr, old_subkeys.subkeys[i])
         THEN DeleteRemovedKeys(st, key, ctr, old_subkeys, i + 1)
         ELSE DeleteRemovedKeys(DeleteRemovedKey(st, key, old_subkeys.subkeys[i]),
                                key, ctr, old_subkeys, i + 1)

\* lines 571-592: create a record with 0 subkeys for a subkey that has none.  The
\* transaction holds the lock and the path is not NULL: the fetch meets EnvOk
CreateMissingKey(st, key, name, u) ==
    LET s1 == Alloc(st)                          \* talloc_asprintf
        s2 == Alloc(s1)                          \* TALLOC_ZERO_P
        f  == regdb_fetch_keys(s2.view, s2.seq, PathOf(key, name), ZeroSubkeyCtr, u, EnvOk)
    IN  IF s2.ok /\ f.ret = -1
        THEN regdb_store_keys_internal(s2, PathOf(key, name), ZeroSubkeyCtr)
        ELSE s2

\* lines 570-593: now create records for any subkeys that don't already exist
RECURSIVE CreateMissingKeys(_, _, _, _, _)
CreateMissingKeys(st, key, ctr, i, u) ==
    IF ~st.ok \/ i > regsubkey_ctr_numkeys(ctr) THEN st
    ELSE CreateMissingKeys(CreateMissingKey(st, key, ctr.subkeys[i], u), key, ctr, i + 1, u)

\* lines 555-568: the record of a key without subkeys is written once more
StoreEmptyKey(st, key, ctr) ==
    IF regsubkey_ctr_numkeys(ctr) = 0
    THEN regdb_store_keys_internal(Alloc(st), key, ZeroSubkeyCtr)
    ELSE st

\* line 492: the old list, fetched again inside the transaction
OldSubkeys(db, seq, key, u) == regdb_fetch_keys(db, seq, key, ZeroSubkeyCtr, u, EnvOk).ctr

\* lines 485-593: regdb_store_keys between tdb_transaction_start and the commit
StoreKeysTransaction(st, key, ctr, u) ==
    LET s1  == Alloc(st)                         \* TALLOC_ZERO_P
        old == OldSubkeys(s1.view, s1.seq, key, u)
        s2  == regdb_store_keys_internal(s1, key, ctr)
        s3  == DeleteRemovedKeys(s2, key, ctr, old, 1)
        s4  == StoreEmptyKey(s3, key, ctr)
    IN  CreateMissingKeys(s4, key, ctr, 1, u)

(***************************************************************************)
(* regdb_pack_values, regdb_unpack_values                                  *)
(***************************************************************************)

REG_NONE == 0

\* tdb_pack_va: the fields flds[i..] go to buf + off while they fit in bufsize
RECURSIVE tdb_pack_va(_, _, _, _, _, _)
tdb_pack_va(cells, off, bufsize, flds, i, total) ==
    IF i > Len(flds) THEN [ret |-> total, cells |-> cells]
    ELSE LET r    == tdb_pack(cells, off, bufsize, flds[i])
             left == IF bufsize # 0 /\ bufsize - r.ret > 0 THEN bufsize - r.ret ELSE 0
         IN  tdb_pack_va(r.cells, off + r.ret, left, flds, i + 1, total + r.ret)

\* lines 747-754: pack the values i.. at buf + len; buflen is 0 for a NULL buf
RECURSIVE PackValuesLoop(_, _, _, _, _)
PackValuesLoop(cells, len, buflen, values, i) ==
    IF i > Len(values) THEN [ret |-> len, cells |-> cells]
    ELSE LET val == values[i]
             r   == tdb_pack_va(cells, len, IF buflen = 0 THEN 0 ELSE buflen - len,
                                <<CellF(val.valuename), CellD(val.type), CellB(val.data_p)>>,
                                1, 0)
         IN  PackValuesLoop(r.cells, len + r.ret, buflen, values, i + 1)

regdb_pack_values(ctr, buflen) ==
    LET r0 == tdb_pack({}, 0, buflen, CellD(regval_ctr_numvals(ctr)))
    IN  PackValuesLoop(r0.cells, r0.ret, buflen, ctr.values, 1)

\* tdb_unpack(buf + off, bufsize, "fdB", valuename, &type, &size, &data_p)
tdb_unpack_fdB(data, off) ==
    LET rf   == tdb_unpack_f(data, off, <<>>)
        rd   == tdb_unpack_d(data, off + rf.ret, REG_NONE)
        offB == off + rf.ret + 4
        S    == CellsAt(data, offB, "B")
        none == [ret |-> -1, valuename |-> <<>>, type |-> REG_NONE, size |-> 0,
                 has_data |-> FALSE, data_p |-> <<>>]
    IN  IF rf.ret = -1 THEN none
        ELSE IF rd.ret = -1 THEN [none EXCEPT !.valuename = rf.s]
        ELSE IF S = {} \/ offB + 4 > data.dsize
             THEN [none EXCEPT !.valuename = rf.s, !.type = rd.d]
        ELSE [ret       |-> rf.ret + 4 + CellSize(TheCell(S)),
              valuename |-> rf.s,
              type      |-> rd.d,
              size      |-> TheCell(S).num,
              has_data  |-> TheCell(S).num # 0,
              data_p    |-> TheCell(S).dat]

\* a loop that adds every entry it unpacks
RECURSIVE UnpackEvery(_, _, _, _, _)
UnpackEvery(data, i, num_values, len, ctr) ==
    IF i >= num_values THEN ctr
    ELSE LET r == tdb_unpack_fdB(data, len)
         IN  UnpackEvery(data, i + 1, num_values, len + r.ret,
                         regval_ctr_addvalue(ctr, r.valuename, r.type, r.data_p))

RECURSIVE UnpackValuesLoop(_, _, _, _, _)
UnpackValuesLoop(data, i, num_values, len, ctr) ==
    IF i >= num_values THEN ctr
    ELSE LET r == tdb_unpack_fdB(data, len)
         IN  UnpackValuesLoop(data, i + 1, num_values, len + r.ret,
                              IF r.valuename # <<>> /\ r.size # 0 /\ r.has_data
                              THEN regval_ctr_addvalue(ctr, r.valuename, r.type, r.data_p)
                              ELSE ctr)

\* an unpacking that adds no value
UnpackNothing(ctr, data) == ctr

regdb_unpack_values(ctr, data) ==
    LET r == tdb_unpack_d(data, 0, 0)
    IN  UnpackValuesLoop(data, 0, r.d, r.ret, ctr)

\* lines 790-798: the result of regdb_fetch_values for the fetched data
FetchValuesDecode(data, ctr) ==
    IF ~data.dptr
    THEN [ret |-> 0, ctr |-> ctr]
    ELSE LET c == regdb_unpack_values(ctr, data)
         IN  [ret |-> regval_ctr_numvals(c), ctr |-> c]

\* regdb_fetch_values as one step on the view db at sequence number seq
regdb_fetch_values(db, seq, key, ctr, env) ==
    IF ~env.alloc \/ ~env.locked
    THEN [ret |-> 0, ctr |-> ctr]
    ELSE FetchValuesDecode(tdb_fetch_bystring(db, ValueKey(key)), [ctr EXCEPT !.seqnum = seq])

\* lines 812-823: the record regdb_store_values writes for values
PackedValues(ctr) ==
    LET len == regdb_pack_values(ctr, 0).ret
    IN  MakeData(regdb_pack_values(ctr, len).cells, len)

(***************************************************************************)
(* Security descriptors                                                    *)
(***************************************************************************)

NullSecdesc == "NULL"

\* a marshalling that loses the descriptor
MarshallNothing(secdesc) ==
    MakeData({At(0, CellSD(NullSecdesc))}, CellSize(CellSD(NullSecdesc)))

marshall_sec_desc(secdesc) == MakeData({At(0, CellSD(secdesc))}, CellSize(CellSD(secdesc)))

\* unmarshall_sec_desc: the status and the descriptor
unmarshall_sec_desc(data) ==
    LET S == CellsAt(data, 0, "sd")
    IN  IF S # {} /\ CellSize(TheCell(S)) = data.dsize
        THEN [status |-> "NT_STATUS_OK", secdesc |-> TheCell(S).str[1]]
        ELSE [status |-> "NT_STATUS_INVALID_PARAMETER", secdesc |-> NullSecdesc]

\* regdb_get_secdesc on the view db; alloc is FALSE when asprintf fails
regdb_get_secdesc(db, key, alloc) ==
    LET data == tdb_fetch_bystring(db, SecdescKey(key))
        r    == unmarshall_sec_desc(data)
    IN  IF ~alloc THEN [werr |-> "WERR_NOMEM", secdesc |-> NullSecdesc]
        ELSE IF ~data.dptr THEN [werr |-> "WERR_BADFILE", secdesc |-> NullSecdesc]
        ELSE IF r.status # "NT_STATUS_OK"
             THEN [werr |-> "WERR_REG_CORRUPT", secdesc |-> NullSecdesc]
             ELSE [werr |-> "WERR_OK", secdesc |-> r.secdesc]

(***************************************************************************)
(* Sequence numbers, lines 357-360 and 945-953                             *)
(***************************************************************************)

\* a sequence number of one bit
WrappedSeqnum(seq) == seq % 2

\* regdb_get_seqnum: tdb_get_seqnum of the tdb whose sequence number is seq
regdb_get_seqnum(seq) == seq

\* a comparison that finds every container up to date
NeverStale(subkeys, seq) == FALSE

regdb_subkeys_need_update(subkeys, seq) == regdb_get_seqnum(seq) # subkeys.seqnum

regdb_values_need_update(values, seq) == regdb_get_seqnum(seq) # values.seqnum

(***************************************************************************)
(* The processes                                                           *)
(*                                                                         *)
(* A process makes one call after the other.  ps[p].pc is "idle" between   *)
(* calls; the arguments and the results of the last call stay in ps[p]     *)
(* until the next call begins.  History fields of ps[p]:                   *)
(*   pre     the committed tdb when the call began (process SeqProc only)  *)
(*   old     the old list regdb_store_keys fetched inside its transaction  *)
(*   opened  the call started a transaction                                *)
(*   failed  a step of the call failed after its transaction had started   *)
(*   got     the fetch read the record under the read lock                 *)
(*   since   what was committed since the fetch stamped its catalog        *)
(*   asked   need_update was called on the catalog of the fetch            *)
(*   nomem   regdb_store_values, regdb_fetch_keys or regdb_fetch_values     *)
(*           found no memory for its key string                            *)
(*   ioerr   the commit of the call failed, or the tdb failed to start or  *)
(*           to write the transaction of regdb_set_secdesc                 *)
(***************************************************************************)

NoProc == "none"

SeqProc == "s"

ConcProcs == {"p1", "p2"}

AllProcs == {SeqProc} \cup ConcProcs

MaxCommits == 3

\* what uninitialised locals may hold
Uninit == [num : {0, 1}, name : {<<"?">>, <<"a">>}]

NoStore == [set |-> FALSE, key |-> <<>>, subkeys |-> <<>>, seeded |-> FALSE]

NoPre == [tdb |-> <<>>, seqnum |-> 0, last |-> NoStore]

Pre(p) == IF p = SeqProc THEN [tdb |-> tdb, seqnum |-> seqnum, last |-> lastStore] ELSE NoPre

Idle ==
    [pc |-> "idle", op |-> "none", key |-> <<>>,
     ctr |-> ZeroSubkeyCtr, values |-> ZeroValCtr, sd |-> NullSecdesc,
     dbuf |-> NULL_DATA, view |-> <<>>, txerr |-> FALSE,
     ok |-> TRUE, ret |-> 0, werr |-> "WERR_OK", need |-> FALSE,
     pre |-> NoPre, old |-> <<>>, opened |-> FALSE, failed |-> FALSE,
     got |-> FALSE, since |-> "none", asked |-> FALSE, nomem |-> FALSE,
     ioerr |-> FALSE]

\* a new call of process p
Call(p, op, key) == [Idle EXCEPT !.op = op, !.key = key, !.pre = Pre(p)]

Return(rec) == [rec EXCEPT !.pc = "idle", !.view = <<>>, !.txerr = FALSE]

Set(p, rec) == ps' = [ps EXCEPT ![p] = rec]

NULL_REG == 0

NoConfCall ==
    [op |-> "none", service |-> "", param |-> "", fault |-> 0, werr |-> "WERR_OK",
     valstr |-> "", names |-> <<>>, pre |-> <<>>]

NoHandleCall == [op |-> "none", reg |-> NULL_REG, count |-> 0, seqnum |-> 0, ok |-> TRUE]

\* the registry is open: one regdb_init has returned true
HandleOpen ==
    /\ tdb_reg = 1
    /\ tdb_refcount = 1
    /\ handles = [held |-> 1, conns |-> 1, seeded |-> NULL_REG, pending |-> FALSE,
                 last |-> NoHandleCall]

\* the process has not called regdb_init yet
HandleClosed ==
    /\ tdb_reg = NULL_REG
    /\ tdb_refcount = 0
    /\ handles = [held |-> 0, conns |-> 0, seeded |-> NULL_REG, pending |-> FALSE,
                 last |-> NoHandleCall]

InitTdb ==
    /\ tdb = <<>>
    /\ seqnum = 0
    /\ txn = NoProc
    /\ wlock = NoProc
    /\ rlocks = {}
    /\ commits = 0
    /\ lastStore = NoStore
    /\ ps = [p \in AllProcs |-> Idle]
    /\ smbconf = <<>>
    /\ smbconf_keys = <<>>
    /\ lastConf = NoConfCall

Init == InitTdb /\ HandleOpen

\* a read of the tdb waits while a commit holds the write lock
CanRead == wlock = NoProc

\* tdb_transaction_start: blocks while another process is in a transaction
CanStart == txn = NoProc /\ commits < MaxCommits

(***************************************************************************)
(* regdb_store_keys, lines 450-474: the fetch outside the transaction.     *)
(* alloc is FALSE when TALLOC_ZERO_P fails; the read lock of the fetch     *)
(* times out while a commit holds the write lock.                          *)
(***************************************************************************)
regdb_store_keys_begin(p, key, subkeys, alloc) ==
    /\ ps[p].pc = "idle"
    /\ LET c   == [Call(p, "store_keys", key) EXCEPT !.ctr.subkeys = subkeys]
           env == [alloc |-> TRUE, locked |-> CanRead]
       IN  IF ~alloc THEN Set(p, Return([c EXCEPT !.ok = FALSE]))
           ELSE \E u \in Uninit :
                  LET old == regdb_fetch_keys(tdb, seqnum, key, ZeroSubkeyCtr, u, env).ctr
                  IN  IF KeysUnchanged(c.ctr, old)
                      THEN Set(p, Return([c EXCEPT !.ok = TRUE]))
                      ELSE Set(p, [c EXCEPT !.pc = "sk_start"])
    /\ UNCHANGED <<tdb, seqnum, txn, wlock, rlocks, commits, lastStore, hvars, cvars>>

\* the steps of the transaction of regdb_store_keys that can fail
StoreKeysFaults(p, u) ==
    0..StoreKeysTransaction(Ctx(tdb, seqnum, 0), ps[p].key, ps[p].ctr, u).n

\* an end that commits whatever happened
CommitAnyway(st) == "commit"

\* lines 595-610: commit after the last step, cancel at the label fail
StoreKeysEnd(st) == IF st.ok THEN "commit" ELSE "cancel"

(***************************************************************************)
(* regdb_store_keys, lines 476-610: tdb_transaction_start and the writes   *)
(* of the transaction.  started is FALSE when tdb_transaction_start fails; *)
(* one of the later steps may fail.                                        *)
(***************************************************************************)
regdb_store_keys_transaction(p, started) ==
    /\ ps[p].pc = "sk_start"
    /\ CanStart
    /\ IF ~started
       THEN Set(p, Return([ps[p] EXCEPT !.ok = FALSE])) /\ UNCHANGED txn
       ELSE \E u \in Uninit : \E fault \in StoreKeysFaults(p, u) :
              LET st  == StoreKeysTransaction(Ctx(tdb, seqnum, fault), ps[p].key, ps[p].ctr, u)
                  old == OldSubkeys(tdb, seqnum, ps[p].key, u).subkeys
                  rec == [ps[p] EXCEPT !.opened = TRUE, !.failed = ~st.ok,
                                       !.old = IF fault # 1 THEN old ELSE <<>>]
              IN  IF StoreKeysEnd(st) = "cancel"
                  THEN Set(p, Return([rec EXCEPT !.ok = FALSE])) /\ UNCHANGED txn
                  ELSE /\ Set(p, [rec EXCEPT !.pc = "commit", !.view = st.view,
                                             !.txerr = st.txerr])
                       /\ txn' = p
    /\ UNCHANGED <<tdb, seqnum, wlock, rlocks, commits, lastStore, hvars, cvars>>

\* a comparison that finds every record changed
ValuesDiffer(old_data, data) == FALSE

\* lines 838-840: the record stored is the record packed
ValuesUnchanged(old_data, data) ==
    old_data.dptr /\ old_data.dsize = data.dsize /\ old_data.cells = data.cells

(***************************************************************************)
(* regdb_store_values, lines 812-844: pack the values, fetch the old       *)
(* record and compare.  alloc is FALSE when the key string cannot be       *)
(* built.                                                                  *)
(***************************************************************************)
regdb_store_values_begin(p, key, values, alloc) ==
    /\ ps[p].pc = "idle"
    /\ CanRead
    /\ LET c        == [Call(p, "store_values", key) EXCEPT !.values.values = values]
           data     == PackedValues(c.values)
           old_data == tdb_fetch_bystring(tdb, ValueKey(key))
       IN  IF data.dsize <= 0 \/ ~alloc
           THEN Set(p, Return([c EXCEPT !.ok = FALSE, !.nomem = ~alloc]))
           ELSE IF ValuesUnchanged(old_data, data) THEN Set(p, Return([c EXCEPT !.ok = TRUE]))
           ELSE Set(p, [c EXCEPT !.pc = "sv_start", !.dbuf = data])
    /\ UNCHANGED <<tdb, seqnum, txn, wlock, rlocks, commits, lastStore, hvars, cvars>>

(***************************************************************************)
(* regdb_store_values, line 846: tdb_trans_store_bystring starts a         *)
(* transaction and stores the record; a failed store cancels.  started and *)
(* stored: the steps succeed.                                              *)
(***************************************************************************)
regdb_store_values_transaction(p, started, stored) ==
    /\ ps[p].pc = "sv_start"
    /\ CanStart
    /\ IF ~started
       THEN Set(p, Return([ps[p] EXCEPT !.ok = FALSE])) /\ UNCHANGED txn
       ELSE IF ~stored
            THEN /\ Set(p, Return([ps[p] EXCEPT !.ok = FALSE, !.opened = TRUE, !.failed = TRUE]))
                 /\ UNCHANGED txn
            ELSE /\ Set(p, [ps[p] EXCEPT !.pc = "commit", !.opened = TRUE,
                                         !.view = Put(tdb, ValueKey(ps[p].key), ps[p].dbuf)])
                 /\ txn' = p
    /\ UNCHANGED <<tdb, seqnum, wlock, rlocks, commits, lastStore, hvars, cvars>>

\* the WERROR of a failed tdb call (ntstatus_to_werror of errno)
WERR_ERRNO == "WERR_ACCESS_DENIED"

(***************************************************************************)
(* regdb_set_secdesc, lines 900-942, up to the commit of tdb_trans_delete  *)
(* or tdb_trans_store_bystring.  alloc: talloc_init and talloc_asprintf    *)
(* succeed; marshalled: marshall_sec_desc succeeds; started, stored: the   *)
(* steps of the tdb call.                                                  *)
(***************************************************************************)
regdb_set_secdesc(p, key, secdesc, alloc, marshalled, started, stored) ==
    /\ ps[p].pc = "idle"
    /\ LET c    == [Call(p, "set_secdesc", key) EXCEPT !.sd = secdesc]
           view == IF secdesc = NullSecdesc
                   THEN Del(tdb, SecdescKey(key))
                   ELSE Put(tdb, SecdescKey(key), marshall_sec_desc(secdesc))
       IN  IF ~alloc \/ (secdesc # NullSecdesc /\ ~marshalled)
           THEN Set(p, Return([c EXCEPT !.werr = "WERR_NOMEM"])) /\ UNCHANGED txn
           ELSE /\ CanStart
                /\ IF ~started
                   THEN Set(p, Return([c EXCEPT !.werr = WERR_ERRNO, !.ioerr = TRUE]))
                        /\ UNCHANGED txn
                   ELSE IF ~(IF secdesc = NullSecdesc
                              THEN tdb_trans_delete(tdb, SecdescKey(key), stored)
                              ELSE stored)
                        THEN /\ Set(p, Return([c EXCEPT !.werr = WERR_ERRNO, !.opened = TRUE,
                                                        !.failed = TRUE, !.ioerr = ~stored]))
                             /\ UNCHANGED txn
                        ELSE /\ Set(p, [c EXCEPT !.pc = "commit", !.opened = TRUE, !.view = view])
                             /\ txn' = p
    /\ UNCHANGED <<tdb, seqnum, wlock, rlocks, commits, lastStore, hvars, cvars>>

\* lines 854-889
regdb_get_secdesc_call(p, key, alloc) ==
    /\ ps[p].pc = "idle"
    /\ CanRead
    /\ LET r == regdb_get_secdesc(tdb, key, alloc)
       IN  Set(p, Return([Call(p, "get_secdesc", key) EXCEPT !.werr = r.werr, !.sd = r.secdesc]))
    /\ UNCHANGED <<tdb, seqnum, txn, wlock, rlocks, commits, lastStore, hvars, cvars>>

(***************************************************************************)
(* init_registry_data, lines 86-250                                        *)
(*                                                                         *)
(* The calls of regdb_store_keys and regdb_store_values inside the         *)
(* transaction of init_registry_data start and end transactions of their   *)
(* own, which the tdb nests: a nested start and a nested commit write      *)
(* nothing, a nested cancel leaves an error pending that makes every later *)
(* commit fail.                                                            *)
(***************************************************************************)

REG_SZ == 1

REG_DWORD == 4

\* lines 40-58, two paths that share their first component: k\a\b and k\c
builtin_registry_paths ==
    <<<<"k", "\\", "a", "\\", "b">>, <<"k", "\\", "c">>>>

\* lines 70-80, two defaults of the key k\a: a string and a number
builtin_registry_values ==
    <<[path |-> <<"k", "\\", "a">>, valuename |-> <<"w">>, type |-> REG_SZ,
       string |-> <<"x">>, dw_value |-> <<>>],
      [path |-> <<"k", "\\", "a">>, valuename |-> <<"v">>, type |-> REG_DWORD,
       string |-> <<>>, dw_value |-> <<"1", "0", "0", "0">>]>>

\* init_unistr2(&data, string, UNI_STR_TERMINATE): two bytes for each
\* character and two for the terminator
RECURSIVE init_unistr2(_)
init_unistr2(str) ==
    IF str = <<>> THEN <<"0", "0">> ELSE <<Head(str), "0">> \o init_unistr2(Tail(str))

RECURSIVE SkipSeparators(_)
SkipSeparators(s) ==
    IF s # <<>> /\ Head(s) = "\\" THEN SkipSeparators(Tail(s)) ELSE s

RECURSIVE TokenLen(_)
TokenLen(s) == IF s = <<>> \/ Head(s) = "\\" THEN 0 ELSE 1 + TokenLen(Tail(s))

\* next_token_talloc(ctx, &ptr, &token, "\\"): the token and the new ptr
next_token_talloc(ptr) ==
    LET s == SkipSeparators(ptr)
        n == TokenLen(s)
    IN  IF s = <<>>
        THEN [found |-> FALSE, token |-> <<>>, ptr |-> ptr]
        ELSE [found |-> TRUE, token |-> SubSeq(s, 1, n),
              ptr |-> SubSeq(s, IF n < Len(s) THEN n + 2 ELSE n + 1, Len(s))]

tdb_transaction_start_nested(st) == Alloc(st)

tdb_transaction_cancel_nested(st) == [st EXCEPT !.ok = FALSE, !.txerr = TRUE]

tdb_transaction_commit_nested(st) == IF st.txerr THEN [st EXCEPT !.ok = FALSE] ELSE st

\* lines 595-611: the nested transaction of regdb_store_keys is committed,
\* or cancelled when one of its steps has failed
StoreKeysNestedEnd(st) ==
    IF ~st.ok THEN tdb_transaction_cancel_nested(st)
    ELSE tdb_transaction_commit_nested(st)

\* lines 476-611: regdb_store_keys from its tdb_transaction_start on, which
\* has left st
StoreKeysNested(st, key, ctr, u) ==
    IF ~st.ok THEN st ELSE StoreKeysNestedEnd(StoreKeysTransaction(st, key, ctr, u))

\* regdb_store_keys, lines 437-611, called inside a transaction; st.ok is
\* what it returns
regdb_store_keys(st, key, ctr, u) ==
    LET s1  == Alloc(st)                        \* TALLOC_ZERO_P, line 450
        old == regdb_fetch_keys(s1.view, s1.seq, key, ZeroSubkeyCtr, u, EnvOk).ctr
    IN  IF ~s1.ok \/ KeysUnchanged(ctr, old) THEN s1
        ELSE StoreKeysNested(tdb_transaction_start_nested(s1), key, ctr, u)

\* tdb_trans_store_bystring inside a transaction
tdb_trans_store_bystring(st, keystr, data) ==
    LET s1 == tdb_transaction_start_nested(st)
        s2 == tdb_store_bystring(s1, keystr, data)
    IN  IF ~s1.ok THEN s1
        ELSE IF ~s2.ok THEN tdb_transaction_cancel_nested(s2)
        ELSE tdb_transaction_commit_nested(s2)

\* regdb_store_values, lines 801-852, called inside a transaction; st.ok is
\* what it returns
regdb_store_values(st, key, values) ==
    LET data     == PackedValues(values)
        s1       == Alloc(st)                   \* talloc_asprintf
        s2       == Alloc(s1)                   \* normalize_reg_path
        old_data == tdb_fetch_bystring(s2.view, ValueKey(key))
    IN  IF data.dsize <= 0 THEN [st EXCEPT !.ok = FALSE]
        ELSE IF ~s2.ok \/ ValuesUnchanged(old_data, data) THEN s2
        ELSE tdb_trans_store_bystring(s2, ValueKey(key), data)

\* lines 133-142: build up the registry path from the components
SeedBase(base, keyname) ==
    IF base = <<>> THEN keyname ELSE base \o <<"\\">> \o keyname

\* lines 144-163: the immediate subkeyname, if there is one; p is what
\* follows the component
SeedSubkeyname(p) ==
    LET t == next_token_talloc(p)
    IN  IF p = <<>> THEN <<>> ELSE IF t.found THEN t.token ELSE p

\* lines 178-184: the subkeys of base are fetched, subkeyname is added and
\* the list stored; st is what the allocations have left
SeedStoreKeys(st, base, subkeyname, u) ==
    LET f       == regdb_fetch_keys(st.view, st.seq, base, ZeroSubkeyCtr, u, EnvOk)
        subkeys == IF subkeyname # <<>>
                   THEN regsubkey_ctr_addkey(f.ctr, subkeyname) ELSE f.ctr
    IN  IF st.ok THEN regdb_store_keys(st, base, subkeys, u) ELSE st

\* lines 131-184: the component keyname of one path, p what follows it
SeedComponent(st, keyname, p, base, u) ==
    SeedStoreKeys(Alloc(Alloc(Alloc(st))),      \* base; subkeyname, remaining; subkeys
                  SeedBase(base, keyname), SeedSubkeyname(p), u)

\* lines 129-185: the components of one path from p on
RECURSIVE SeedComponents(_, _, _, _)
SeedComponents(st, p, base, u) ==
    LET t == next_token_talloc(p)
    IN  IF ~st.ok \/ ~t.found THEN st
        ELSE SeedComponents(SeedComponent(st, t.token, t.ptr, base, u), t.ptr,
                            SeedBase(base, t.token), u)

\* lines 116-188: loop over all of the predefined paths
RECURSIVE SeedPaths(_, _, _)
SeedPaths(st, i, u) ==
    IF ~st.ok \/ i > Len(builtin_registry_paths) THEN st
    ELSE SeedPaths(SeedComponents(Alloc(st), builtin_registry_paths[i], <<>>, u), i + 1, u)

\* lines 203-225: the default value b is added to values and the values stored
SeedDefault(st, b, values) ==
    LET data_p == IF b.type = REG_DWORD THEN b.dw_value ELSE init_unistr2(b.string)
    IN  IgnoreError(st, regdb_store_values(st, b.path,
                                           regval_ctr_addvalue(values, b.valuename,
                                                               b.type, data_p)))

\* lines 194-227: one predefined value
SeedValue(st, b) ==
    LET s1 == Alloc(st)                         \* TALLOC_ZERO_P
        f  == regdb_fetch_values(s1.view, s1.seq, b.path, ZeroValCtr, EnvOk)
    IN  IF ~s1.ok \/ regval_ctr_key_exists(f.ctr, b.valuename) THEN s1
        ELSE SeedDefault(s1, b, f.ctr)

\* lines 192-228: loop over all of the predefined values
RECURSIVE SeedValues(_, _)
SeedValues(st, i) ==
    IF ~st.ok \/ i > Len(builtin_registry_values) THEN st
    ELSE SeedValues(SeedValue(st, builtin_registry_values[i]), i + 1)

\* lines 114-228: init_registry_data between tdb_transaction_start and the commit
SeedTransaction(st, u) == SeedValues(SeedPaths(st, 1, u), 1)

\* the steps of the transaction of init_registry_data that can fail
SeedFaults(u) == 0..SeedTransaction(Ctx(tdb, seqnum, 0), u).n

(***************************************************************************)
(* init_registry_data, lines 108-112 and 114-249: tdb_transaction_start    *)
(* and the writes of the transaction; the label fail cancels.  started is  *)
(* FALSE when tdb_transaction_start fails; one of the later steps may      *)
(* fail: step number fault, which the history field failed records.        *)
(***************************************************************************)
\* a bootstrap that returns true without a transaction
NoSeeding(p, started) ==
    /\ ps[p].pc = "idle"
    /\ Set(p, Return(Call(p, "init_registry_data", <<>>)))
    /\ UNCHANGED <<tdb, seqnum, txn, wlock, rlocks, commits, lastStore>>

init_registry_data_transaction(p, started) ==
    /\ ps[p].pc = "idle"
    /\ CanStart
    /\ LET c == Call(p, "init_registry_data", <<>>)
       IN  IF ~started
           THEN Set(p, Return([c EXCEPT !.ok = FALSE])) /\ UNCHANGED txn
           ELSE \E u \in Uninit : \E fault \in SeedFaults(u) :
                \E st \in {SeedTransaction(Ctx(tdb, seqnum, fault), u)} :
                  LET rec == [c EXCEPT !.opened = TRUE, !.failed = fault # 0]
                  IN  IF ~st.ok
                      THEN Set(p, Return([rec EXCEPT !.ok = FALSE])) /\ UNCHANGED txn
                      ELSE /\ Set(p, [rec EXCEPT !.pc = "commit", !.view = st.view,
                                                 !.txerr = st.txerr])
                           /\ txn' = p
    /\ UNCHANGED <<tdb, seqnum, wlock, rlocks, commits, lastStore>>

\* init_registry_data called on the open registry
init_registry_data(p, started) ==
    init_registry_data_transaction(p, started) /\ UNCHANGED <<hvars, cvars>>

\* what the caller gets when the commit of its transaction fails
CommitFailed(rec) ==
    Return([rec EXCEPT !.ok = FALSE, !.failed = TRUE, !.ioerr = TRUE,
                       !.werr = IF rec.op = "set_secdesc" THEN WERR_ERRNO ELSE rec.werr])

(***************************************************************************)
(* tdb_transaction_commit, first part: the commit fails (an error is       *)
(* pending, or the commit itself fails) or takes the write lock, which     *)
(* waits for the readers.                                                  *)
(***************************************************************************)
tdb_transaction_commit_lock(p, fails) ==
    /\ ps[p].pc = "commit"
    /\ IF fails \/ ps[p].txerr
       THEN /\ Set(p, CommitFailed(ps[p]))
            /\ txn' = NoProc
            /\ UNCHANGED wlock
       ELSE /\ rlocks = {}
            /\ wlock = NoProc
            /\ wlock' = p
            /\ Set(p, [ps[p] EXCEPT !.pc = "commit_write"])
            /\ UNCHANGED txn
    /\ UNCHANGED <<tdb, seqnum, rlocks, commits, lastStore, hvars, cvars>>

\* what a commit that makes the tdb db2 out of db1 means for a held catalog
Since(rec, db1, db2) ==
    IF ~rec.got THEN rec.since
    ELSE IF db1 # db2 \/ rec.since = "change" THEN "change" ELSE "commit"

(***************************************************************************)
(* tdb_transaction_commit, second part: the writes of the transaction      *)
(* reach the tdb, the sequence number moves on and the locks go.           *)
(***************************************************************************)
tdb_transaction_commit_write(p) ==
    /\ ps[p].pc = "commit_write"
    /\ tdb' = ps[p].view
    /\ seqnum' = seqnum + 1
    /\ commits' = commits + 1
    /\ lastStore' = IF ps[p].op = "store_keys"
                    THEN [NoStore EXCEPT !.set = TRUE, !.key = ps[p].key,
                                         !.subkeys = ps[p].ctr.subkeys]
                    ELSE [NoStore EXCEPT !.seeded = (ps[p].op = "init_registry_data"
                                                     /\ ~ps[p].failed)]
    /\ wlock' = NoProc
    /\ txn' = NoProc
    /\ ps' = [q \in AllProcs |->
                IF q = p THEN Return([ps[p] EXCEPT !.ok = TRUE])
                ELSE [ps[q] EXCEPT !.since = Since(ps[q], tdb, ps[p].view)]]
    /\ UNCHANGED <<rlocks, hvars, cvars>>

\* the record a fetch reads
FetchPath(rec) == IF rec.op = "fetch_keys" THEN FetchKeysPath(rec.key) ELSE ValueKey(rec.key)

\* tdb_read_lock_bystring_with_timeout with the lock granted: the read locks then
tdb_read_lock_bystring_with_timeout(locks, p) == locks \cup {p}

(***************************************************************************)
(* regdb_fetch_keys, lines 629-647, and regdb_fetch_values, lines 772-783: *)
(* build the path and take the read lock.  alloc is FALSE when the path    *)
(* cannot be built; the lock times out while a commit holds the write      *)
(* lock.                                                                   *)
(***************************************************************************)
\* a lock that is asked for again when the timer expires
KeepWaiting(c) == c

\* lines 645-647 and 781-783: the read lock timed out, the call returns 0
LockTimedOut(c) == Return([c EXCEPT !.ret = 0])

\* the path and the read lock of the call c of process p
FetchLock(p, c, alloc) ==
    IF ~alloc
    THEN /\ Set(p, Return([c EXCEPT !.ret = IF c.op = "fetch_keys" THEN -1 ELSE 0,
                                      !.nomem = TRUE]))
         /\ UNCHANGED rlocks
    ELSE IF ~CanRead
         THEN Set(p, LockTimedOut(c)) /\ UNCHANGED rlocks
         ELSE /\ Set(p, [c EXCEPT !.pc = "fetch_data"])
              /\ rlocks' = tdb_read_lock_bystring_with_timeout(rlocks, p)

regdb_fetch_lock(p, op, key, alloc) ==
    /\ ps[p].pc = "idle"
    /\ FetchLock(p, Call(p, op, key), alloc)
    /\ UNCHANGED <<tdb, seqnum, txn, wlock, commits, lastStore, hvars, cvars>>

(***************************************************************************)
(* The same call with the wait for the read lock as a step of its own:     *)
(* regdb_fetch_call builds the path and asks for the lock, and             *)
(* regdb_fetch_wait ends the wait, with the lock or with the timeout.      *)
(***************************************************************************)
regdb_fetch_call(p, op, key, alloc) ==
    /\ ps[p].pc = "idle"
    /\ IF ~alloc THEN FetchLock(p, Call(p, op, key), FALSE)
       ELSE Set(p, [Call(p, op, key) EXCEPT !.pc = "fetch_wait"]) /\ UNCHANGED rlocks
    /\ UNCHANGED <<tdb, seqnum, txn, wlock, commits, lastStore, hvars, cvars>>

regdb_fetch_wait(p) ==
    /\ ps[p].pc = "fetch_wait"
    /\ FetchLock(p, ps[p], TRUE)
    /\ UNCHANGED <<tdb, seqnum, txn, wlock, commits, lastStore, hvars, cvars>>

\* line 649 and line 785: tdb_fetch_bystring
regdb_fetch_data(p) ==
    /\ ps[p].pc = "fetch_data"
    /\ Set(p, [ps[p] EXCEPT !.pc = "fetch_seq", !.got = TRUE,
                            !.dbuf = tdb_fetch_bystring(tdb, FetchPath(ps[p]))])
    /\ UNCHANGED <<tdb, seqnum, txn, wlock, rlocks, commits, lastStore, hvars, cvars>>

(***************************************************************************)
(* lines 650-677 and 786-798: stamp the container with the sequence        *)
(* number, release the read lock and decode the record.                    *)
(***************************************************************************)
regdb_fetch_seq(p, u) ==
    /\ ps[p].pc = "fetch_seq"
    /\ rlocks' = rlocks \ {p}
    /\ IF ps[p].op = "fetch_keys"
       THEN LET r == FetchKeysDecode(ps[p].dbuf,
                                     [ps[p].ctr EXCEPT !.seqnum = regdb_get_seqnum(seqnum)], u)
            IN  Set(p, Return([ps[p] EXCEPT !.ret = r.ret, !.ctr = r.ctr]))
       ELSE LET r == FetchValuesDecode(ps[p].dbuf,
                                       [ps[p].values EXCEPT !.seqnum = regdb_get_seqnum(seqnum)])
            IN  Set(p, Return([ps[p] EXCEPT !.ret = r.ret, !.values = r.ctr]))
    /\ UNCHANGED <<tdb, seqnum, txn, wlock, commits, lastStore, hvars, cvars>>

\* lines 945-953: regdb_subkeys_need_update or regdb_values_need_update on
\* the container of the last fetch
regdb_need_update(p) ==
    /\ ps[p].pc = "idle"
    /\ ps[p].op \in {"fetch_keys", "fetch_values"}
    /\ Set(p, [ps[p] EXCEPT !.asked = TRUE,
                            !.need = IF ps[p].op = "fetch_keys"
                                    THEN regdb_subkeys_need_update(ps[p].ctr, seqnum)
                                    ELSE regdb_values_need_update(ps[p].values, seqnum)])
    /\ UNCHANGED <<tdb, seqnum, txn, wlock, rlocks, commits, lastStore, hvars, cvars>>

(***************************************************************************)
(* The calls the processes make                                            *)
(***************************************************************************)

k == <<"k">>

ka == <<"k", "\\", "a">>

kab == <<"k", "\\", "a", "\\", "b">>

\* four names of 255 bytes: with the count they need 1028 bytes
Long == <<<<"w", "R254">>, <<"x", "R254">>, <<"y", "R254">>, <<"z", "R254">>>>

Store(key, subkeys) == [key |-> key, subkeys |-> subkeys]

V1 == <<[valuename |-> <<"v">>, type |-> 1, size |-> 1, data_p |-> <<"1">>]>>

D1 == "D1"

D2 == "D2"

\* other values of v, and two values
V1b == <<[valuename |-> <<"v">>, type |-> 1, size |-> 2, data_p |-> <<"1", "2">>]>>

V2 == <<[valuename |-> <<"w">>, type |-> 3, size |-> 2, data_p |-> <<"0", "1">>],
        [valuename |-> <<"v">>, type |-> 1, size |-> 1, data_p |-> <<"1">>]>>

SeqStores ==
    {Store(k, <<>>), Store(k, <<<<"a">>>>), Store(k, <<<<"a">>, <<"b">>>>),
     Store(k, <<<<"A">>>>), Store(k, Long), Store(ka, <<<<"b">>>>)}

ConcStores == {Store(k, <<<<"a">>>>), Store(k, <<<<"b">>>>)}

SeqCalls ==
    [stores |-> SeqStores, valkeys |-> {ka}, values |-> {V1},
     sdkeys |-> {ka}, secdescs |-> {D1, NullSecdesc}, getkeys |-> {ka},
     keys |-> {k, ka, kab}, fetchvals |-> {ka}, need |-> TRUE]

\* the calls of the writing process
WriterCalls ==
    [stores |-> ConcStores, valkeys |-> {ka}, values |-> {V1},
     sdkeys |-> {ka}, secdescs |-> {D1}, getkeys |-> {},
     keys |-> {}, fetchvals |-> {}, need |-> FALSE]

\* the calls of the reading process
ReaderCalls ==
    [stores |-> {}, valkeys |-> {}, values |-> {},
     sdkeys |-> {}, secdescs |-> {}, getkeys |-> {ka},
     keys |-> {k}, fetchvals |-> {ka}, need |-> TRUE]

Writer == "p1"

Reader == "p2"

\* at most one step of a call fails: step i of n, or none
OneFails(n) == {[i \in 1..n |-> i # f] : f \in 0..n}

Calls(p, in) ==
    \/ \E s \in in.stores, alloc \in BOOLEAN :
          regdb_store_keys_begin(p, s.key, s.subkeys, alloc)
    \/ \E key \in in.valkeys, values \in in.values, alloc \in BOOLEAN :
          regdb_store_values_begin(p, key, values, alloc)
    \/ \E key \in in.sdkeys, sd \in in.secdescs, f \in OneFails(4) :
          regdb_set_secdesc(p, key, sd, f[1], f[2], f[3], f[4])
    \/ \E key \in in.getkeys, alloc \in BOOLEAN : regdb_get_secdesc_call(p, key, alloc)
    \/ \E key \in in.keys, alloc \in BOOLEAN : regdb_fetch_lock(p, "fetch_keys", key, alloc)
    \/ \E key \in in.fetchvals, alloc \in BOOLEAN : regdb_fetch_lock(p, "fetch_values", key, alloc)
    \/ in.need /\ regdb_need_update(p)

Steps(p) ==
    \/ \E started \in BOOLEAN : regdb_store_keys_transaction(p, started)
    \/ \E f \in OneFails(2) : regdb_store_values_transaction(p, f[1], f[2])
    \/ \E fails \in BOOLEAN : tdb_transaction_commit_lock(p, fails)
    \/ tdb_transaction_commit_write(p)
    \/ regdb_fetch_data(p)
    \/ \E u \in Uninit : regdb_fetch_seq(p, u)

\* one process, one call after the other
Next == Calls(SeqProc, SeqCalls) \/ Steps(SeqProc)

Spec == Init /\ [][Next]_vars

\* stores that keep, reorder and remove the children of k, which have
\* records of their own
FrameStores ==
    {Store(k, <<<<"a">>, <<"b">>>>), Store(k, <<<<"b">>, <<"a">>>>), Store(k, <<<<"b">>>>),
     Store(k, Long), Store(ka, <<<<"b">>>>)}

FrameCalls ==
    [stores |-> FrameStores, valkeys |-> {k, ka}, values |-> {V1},
     sdkeys |-> {k, ka}, secdescs |-> {D1}, getkeys |-> {ka},
     keys |-> {k}, fetchvals |-> {ka}, need |-> TRUE]

NextFrame == Calls(SeqProc, FrameCalls) \/ Steps(SeqProc)

SpecFrame == Init /\ [][NextFrame]_vars

\* paths whose first component is the prefix of the value records or of
\* the security descriptors
RegvalKa == REG_VALUE_PREFIX \o <<"\\">> \o ka

SecdescKa == REG_SECDESC_PREFIX \o <<"\\">> \o ka

PrefixCalls ==
    [stores |-> {Store(RegvalKa, <<<<"b">>>>), Store(SecdescKa, <<<<"b">>>>)},
     valkeys |-> {ka}, values |-> {V1},
     sdkeys |-> {ka}, secdescs |-> {D1}, getkeys |-> {ka},
     keys |-> {RegvalKa}, fetchvals |-> {ka}, need |-> TRUE]

NextPrefix == Calls(SeqProc, PrefixCalls) \/ Steps(SeqProc)

SpecPrefix == Init /\ [][NextPrefix]_vars

\* a writer and a reader, their calls interleaved
NextConc ==
    \/ Calls(Writer, WriterCalls) \/ Steps(Writer)
    \/ Calls(Reader, ReaderCalls) \/ Steps(Reader)

SpecConc == Init /\ [][NextConc]_vars

(***************************************************************************)
(* Two writers of one key.  The tdb holds the list InitialList of the key  *)
(* k and the values V1 of k\a, stored by two transactions; each of the     *)
(* two processes then calls regdb_store_keys(k, L) once.                   *)
(***************************************************************************)

InitialList == <<<<"a">>, <<"b">>>>

RaceLists == {<<<<"a">>>>, <<<<"b">>, <<"c">>>>, InitialList, Long}

InitialTdb ==
    Put(StoreKeysTransaction(Ctx(<<>>, 0, 0), k, [ZeroSubkeyCtr EXCEPT !.subkeys = InitialList],
                             [num |-> 0, name |-> <<"?">>]).view,
        ValueKey(ka), PackedValues([ZeroValCtr EXCEPT !.values = V1]))

InitRace ==
    /\ tdb = InitialTdb
    /\ seqnum = 2
    /\ txn = NoProc
    /\ wlock = NoProc
    /\ rlocks = {}
    /\ commits = 0
    /\ lastStore = NoStore
    /\ ps = [p \in AllProcs |-> Idle]
    /\ smbconf = <<>>
    /\ smbconf_keys = <<>>
    /\ lastConf = NoConfCall
    /\ HandleOpen

NextRace ==
    \E p \in ConcProcs :
       \/ /\ ps[p].op = "none"
          /\ \E subkeys \in RaceLists, alloc \in BOOLEAN :
                regdb_store_keys_begin(p, k, subkeys, alloc)
       \/ \E started \in BOOLEAN : regdb_store_keys_transaction(p, started)
       \/ \E fails \in BOOLEAN : tdb_transaction_commit_lock(p, fails)
       \/ tdb_transaction_commit_write(p)

SpecRace == InitRace /\ [][NextRace]_vars

(***************************************************************************)
(* One process that names the key k\a in several ways.                     *)
(***************************************************************************)

Spellings == {ka, <<"K", "/", "A">>, <<"k", "/", "A">>}

PathCalls ==
    [stores |-> {Store(x, <<<<"b">>>>) : x \in Spellings}, valkeys |-> Spellings,
     values |-> {V1}, sdkeys |-> Spellings, secdescs |-> {D1}, getkeys |-> Spellings,
     keys |-> Spellings, fetchvals |-> Spellings, need |-> TRUE]

NextPaths == Calls(SeqProc, PathCalls) \/ Steps(SeqProc)

SpecPaths == Init /\ [][NextPaths]_vars

(***************************************************************************)
(* One process that stores and fetches the values of k and of k\a.         *)
(***************************************************************************)

ValueCalls ==
    [stores |-> {Store(k, <<<<"a">>>>)}, valkeys |-> {k, ka},
     values |-> {V1, V1b, V2}, sdkeys |-> {k}, secdescs |-> {D1}, getkeys |-> {k},
     keys |-> {k}, fetchvals |-> {k, ka}, need |-> TRUE]

NextValues == Calls(SeqProc, ValueCalls) \/ Steps(SeqProc)

SpecValues == Init /\ [][NextValues]_vars

(***************************************************************************)
(* One process that sets and gets the security descriptors of k and of     *)
(* k\a, and stores the subkeys of k.                                       *)
(***************************************************************************)

SecdescCalls ==
    [stores |-> {Store(k, <<>>), Store(k, <<<<"a">>>>)}, valkeys |-> {k},
     values |-> {V1}, sdkeys |-> {k, ka}, secdescs |-> {D1, D2, NullSecdesc},
     getkeys |-> {k, ka}, keys |-> {k}, fetchvals |-> {k}, need |-> TRUE]

NextSecdesc == Calls(SeqProc, SecdescCalls) \/ Steps(SeqProc)

SpecSecdesc == Init /\ [][NextSecdesc]_vars

(***************************************************************************)
(* One process that runs init_registry_data again and again, and between   *)
(* the runs stores and fetches values of k\a.                              *)
(***************************************************************************)

\* a value v without payload
V0 == <<[valuename |-> <<"v">>, type |-> 1, size |-> 0, data_p |-> <<>>]>>

\* a value V of one byte and a value u
V3 == <<[valuename |-> <<"V">>, type |-> 3, size |-> 1, data_p |-> <<"2">>],
        [valuename |-> <<"u">>, type |-> 1, size |-> 1, data_p |-> <<"3">>]>>

SeedValueLists == {V0, V1, V3}

NextSeed ==
    \/ \E started \in BOOLEAN : init_registry_data(SeqProc, started)
    \/ \E values \in SeedValueLists, alloc \in BOOLEAN :
          regdb_store_values_begin(SeqProc, ka, values, alloc)
    \/ \E f \in OneFails(2) : regdb_store_values_transaction(SeqProc, f[1], f[2])
    \/ \E alloc \in BOOLEAN : regdb_fetch_lock(SeqProc, "fetch_values", ka, alloc)
    \/ regdb_fetch_data(SeqProc)
    \/ \E u \in Uninit : regdb_fetch_seq(SeqProc, u)
    \/ \E fails \in BOOLEAN : tdb_transaction_commit_lock(SeqProc, fails)
    \/ tdb_transaction_commit_write(SeqProc)

SpecSeed == Init /\ [][NextSeed]_vars

\* a value without payload, a value without name and two values with both
V4 == <<[valuename |-> <<"v">>, type |-> 1, size |-> 0, data_p |-> <<>>],
        [valuename |-> <<"w">>, type |-> 3, size |-> 1, data_p |-> <<"1">>],
        [valuename |-> <<>>, type |-> 1, size |-> 1, data_p |-> <<"2">>],
        [valuename |-> <<"u">>, type |-> 1, size |-> 2, data_p |-> <<"0", "1">>]>>

SkipCalls ==
    [stores |-> {Store(k, <<<<"a">>>>)}, valkeys |-> {ka},
     values |-> {V0, V1, V4}, sdkeys |-> {ka}, secdescs |-> {D1}, getkeys |-> {ka},
     keys |-> {k}, fetchvals |-> {ka}, need |-> TRUE]

NextSkip == Calls(SeqProc, SkipCalls) \/ Steps(SeqProc)

SpecSkip == Init /\ [][NextSkip]_vars

(***************************************************************************)
(* One process that runs init_registry_data on keys that list children     *)
(* already: it stores subkeys of k and of k\a between the runs.            *)
(***************************************************************************)

\* four names that need 1023 bytes with the count: with one more name of one
\* character the list does not fit the initial buffer
Near == <<<<"w", "R254">>, <<"x", "R254">>, <<"y", "R254">>, <<"z", "R249">>>>

ChainStores == {Store(ka, <<<<"d">>>>), Store(k, Near)}

NextChain ==
    \/ \E started \in BOOLEAN : init_registry_data(SeqProc, started)
    \/ \E s \in ChainStores, alloc \in BOOLEAN :
          regdb_store_keys_begin(SeqProc, s.key, s.subkeys, alloc)
    \/ \E started \in BOOLEAN : regdb_store_keys_transaction(SeqProc, started)
    \/ \E fails \in BOOLEAN : tdb_transaction_commit_lock(SeqProc, fails)
    \/ tdb_transaction_commit_write(SeqProc)

SpecChain == Init /\ [][NextChain]_vars

(***************************************************************************)
(* Progress.  The process Writer stores lists of k and may stop at any     *)
(* point, also inside a transaction or with the write lock of a commit     *)
(* held.  The process Reader fetches and stores and goes on running: each  *)
(* of its steps that is enabled is taken (its code is sequential and has   *)
(* no loop inside these steps), and tdb_transaction_start, a blocking      *)
(* lock, is granted to it when the lock is free again and again.           *)
(***************************************************************************)

LiveStores == {Store(k, <<<<"a">>>>), Store(k, <<<<"b">>>>)}

StoreSteps(p) ==
    \/ \E started \in BOOLEAN : regdb_store_keys_transaction(p, started)
    \/ \E fails \in BOOLEAN : tdb_transaction_commit_lock(p, fails)
    \/ tdb_transaction_commit_write(p)

FetchSteps(p) ==
    \/ regdb_fetch_wait(p)
    \/ regdb_fetch_data(p)
    \/ \E u \in Uninit : regdb_fetch_seq(p, u)

NextLive ==
    \/ \E p \in ConcProcs, s \in LiveStores, alloc \in BOOLEAN :
          regdb_store_keys_begin(p, s.key, s.subkeys, alloc)
    \/ StoreSteps(Writer)
    \/ StoreSteps(Reader)
    \/ \E alloc \in BOOLEAN : regdb_fetch_call(Reader, "fetch_keys", k, alloc)
    \/ \E alloc \in BOOLEAN : regdb_fetch_call(Reader, "fetch_values", ka, alloc)
    \/ FetchSteps(Reader)

Running(p) ==
    /\ WF_vars(FetchSteps(p))
    /\ SF_vars(\E started \in BOOLEAN : regdb_store_keys_transaction(p, started))
    /\ WF_vars(\E fails \in BOOLEAN : tdb_transaction_commit_lock(p, fails))
    /\ WF_vars(tdb_transaction_commit_write(p))

SpecLive == Init /\ [][NextLive]_vars /\ Running(Reader)

(***************************************************************************)
(* The handle of the registry: regdb_init, regdb_open and regdb_close of   *)
(* one process, on the static variables tdb_reg and tdb_refcount.          *)
(* wrapped is FALSE when tdb_wrap_open fails (in regdb_init: with O_RDWR   *)
(* and with O_RDWR|O_CREAT).                                               *)
(***************************************************************************)

MaxRefcount == 3

MaxConns == 2

tvars == <<tdb, seqnum, txn, wlock, rlocks, commits, lastStore, ps>>

Handle == [reg |-> tdb_reg, count |-> tdb_refcount]

SetHandle(h) == tdb_reg' = h.reg /\ tdb_refcount' = h.count

\* the call op on the handle as it is, with the result ok
HandleCall(op, ok) ==
    [op |-> op, reg |-> tdb_reg, count |-> tdb_refcount, seqnum |-> seqnum, ok |-> ok]

\* a close that frees the connection whatever the count
FreeAlways(h) == [reg |-> NULL_REG, count |-> IF h.count = 0 THEN 0 ELSE h.count - 1]

\* lines 261-265 and 307-311: the handle is held, the count goes up
HeldHandle(h) == [h EXCEPT !.count = h.count + 1]

\* lines 335-349: regdb_close on the handle h
ClosedHandle(h) ==
    IF h.count = 0 THEN h
    ELSE IF h.count - 1 > 0 THEN [h EXCEPT !.count = h.count - 1]
         ELSE [reg |-> NULL_REG, count |-> 0]

\* lines 256-297: the handle is held, or tdb_wrap_open and init_registry_data
regdb_init(p, wrapped, started) ==
    /\ ps[p].pc = "idle"
    /\ ~handles.pending
    /\ IF tdb_reg # NULL_REG
       THEN /\ tdb_refcount < MaxRefcount
            /\ SetHandle(HeldHandle(Handle))
            /\ handles' = [handles EXCEPT !.held = @ + 1, !.last = HandleCall("regdb_init", TRUE)]
            /\ UNCHANGED tvars
       ELSE IF ~wrapped
            THEN /\ handles' = [handles EXCEPT !.last = HandleCall("regdb_init", FALSE)]
                 /\ UNCHANGED <<tdb_reg, tdb_refcount, tvars>>
            ELSE /\ handles.conns < MaxConns
                 /\ SetHandle([reg |-> handles.conns + 1, count |-> 1])
                 /\ handles' = [handles EXCEPT !.conns = @ + 1, !.pending = TRUE,
                                               !.last = HandleCall("regdb_init", TRUE)]
                 /\ init_registry_data_transaction(p, started)
    /\ UNCHANGED cvars

\* lines 291-296: regdb_init returns what init_registry_data returned
regdb_init_return(p) ==
    /\ handles.pending
    /\ ps[p].pc = "idle"
    /\ handles' = [handles EXCEPT !.pending = FALSE, !.last.ok = ps[p].ok,
                                  !.held = IF ps[p].ok THEN @ + 1 ELSE @,
                                  !.seeded = IF ps[p].ok THEN tdb_reg ELSE @]
    /\ UNCHANGED <<tdb_reg, tdb_refcount, tvars, cvars>>

\* lines 303-328
regdb_open(p, wrapped) ==
    /\ ps[p].pc = "idle"
    /\ ~handles.pending
    /\ IF tdb_reg # NULL_REG
       THEN /\ tdb_refcount < MaxRefcount
            /\ SetHandle(HeldHandle(Handle))
            /\ handles' = [handles EXCEPT !.held = @ + 1, !.last = HandleCall("regdb_open", TRUE)]
       ELSE /\ wrapped => handles.conns < MaxConns
            /\ SetHandle([reg |-> IF wrapped THEN handles.conns + 1 ELSE NULL_REG, count |-> 1])
            /\ handles' = [handles EXCEPT !.conns = IF wrapped THEN @ + 1 ELSE @,
                                          !.held = IF wrapped THEN @ + 1 ELSE @,
                                          !.last = HandleCall("regdb_open", wrapped)]
    /\ UNCHANGED <<tvars, cvars>>

\* lines 333-350
regdb_close(p) ==
    /\ ps[p].pc = "idle"
    /\ ~handles.pending
    /\ SetHandle(ClosedHandle(Handle))
    /\ handles' = [handles EXCEPT !.held = IF @ > 0 THEN @ - 1 ELSE 0,
                                  !.last = HandleCall("regdb_close", TRUE)]
    /\ UNCHANGED <<tvars, cvars>>

InitHandle == InitTdb /\ HandleClosed

NextHandle ==
    \/ \E wrapped, started \in BOOLEAN : regdb_init(SeqProc, wrapped, started)
    \/ regdb_init_return(SeqProc)
    \/ \E wrapped \in BOOLEAN : regdb_open(SeqProc, wrapped)
    \/ regdb_close(SeqProc)
    \/ \E fails \in BOOLEAN : tdb_transaction_commit_lock(SeqProc, fails)
    \/ tdb_transaction_commit_write(SeqProc)

SpecHandle == InitHandle /\ [][NextHandle]_vars

(***************************************************************************)
(* libnet_conf, source/libnet/libnet_conf.c: the configuration kept below  *)
(* KEY_SMBCONF.  The registry API (reg_open_path, reg_createkey,           *)
(* reg_setvalue, reg_queryvalue, reg_deletevalue, reg_deletekey_recursive) *)
(* and the parameter table of loadparm are not part of the source; they    *)
(* are modelled on smbconf, a function from the names of the service keys  *)
(* to their values.  The context of the calls is open (ctx and its token   *)
(* are set) and the string arguments and result pointers are not NULL.     *)
(*                                                                         *)
(* f counts down to the step of the call that fails: the step that finds   *)
(* f = 1 fails, 0 is no failure.  Each operator yields the werr, the       *)
(* smbconf and the f it leaves.                                            *)
(***************************************************************************)

GLOBAL_NAME == "global"

Dec(f) == IF f > 0 THEN f - 1 ELSE 0

\* the parameter table: "directory" is a synonym of "path", "workgroup" is
\* a global parameter, any other name is no parameter
lp_canonicalize_parameter(param) ==
    IF param \in {"path", "directory"} THEN "path"
    ELSE IF param = "workgroup" THEN "workgroup" ELSE ""

lp_parameter_is_global(param) == param = "workgroup"

ConfResult(werr, conf, f) ==
    [werr |-> werr, conf |-> conf, f |-> f, valstr |-> "", names |-> <<>>]

\* reg_open_path on the key of the service
reg_open_path(conf, servicename, f) ==
    IF f = 1 THEN ConfResult("WERR_ACCESS_DENIED", conf, 0)
    ELSE ConfResult(IF servicename \in DOMAIN conf THEN "WERR_OK" ELSE "WERR_BADFILE",
                    conf, Dec(f))

\* lines 125-152: talloc_asprintf of the path, then reg_open_path
libnet_conf_reg_open_service_key(conf, servicename, f) ==
    IF f = 1 THEN ConfResult("WERR_NOMEM", conf, 0)
    ELSE reg_open_path(conf, servicename, Dec(f))

\* lines 157-164: reg_open_path on KEY_SMBCONF, which exists
libnet_conf_reg_open_base_key(conf, f) ==
    IF f = 1 THEN ConfResult("WERR_ACCESS_DENIED", conf, 0)
    ELSE ConfResult("WERR_OK", conf, Dec(f))

\* lines 169-184: reg_queryvalue finds the value
libnet_conf_value_exists(conf, service, param, f) ==
    [ret |-> f # 1 /\ param \in DOMAIN conf[service], f |-> Dec(f)]

\* a test that finds every service
AnyService(conf, servicename, f) == [ret |-> TRUE, f |-> f]

\* lines 704-720
libnet_conf_share_exists(conf, servicename, f) ==
    LET r == libnet_conf_reg_open_service_key(conf, servicename, f)
    IN  [ret |-> r.werr = "WERR_OK", f |-> r.f]

\* reg_createkey: the key is opened when it exists, and created without
\* values when not; action tells which
reg_createkey(conf, subkeyname, f) ==
    IF f = 1 THEN [werr |-> "WERR_NOMEM", conf |-> conf, f |-> 0, action |-> "REG_ACTION_NONE"]
    ELSE IF subkeyname \in DOMAIN conf
         THEN [werr |-> "WERR_OK", conf |-> conf, f |-> Dec(f),
               action |-> "REG_OPENED_EXISTING_KEY"]
         ELSE [werr |-> "WERR_OK", conf |-> (subkeyname :> <<>>) @@ conf, f |-> Dec(f),
               action |-> "REG_CREATED_NEW_KEY"]

\* a creation that creates nothing
CreateNothing(conf, subkeyname, f) == ConfResult("WERR_OK", conf, f)

\* lines 189-227: talloc_stackframe, the base key, reg_createkey
libnet_conf_reg_create_service_key(conf, subkeyname, f) ==
    IF f = 1 THEN ConfResult("WERR_NOMEM", conf, 0)
    ELSE LET b == libnet_conf_reg_open_base_key(conf, Dec(f))
             c == reg_createkey(conf, subkeyname, b.f)
         IN  IF b.werr # "WERR_OK" THEN b
             ELSE IF c.werr = "WERR_OK" /\ c.action # "REG_CREATED_NEW_KEY"
                  THEN ConfResult("WERR_ALREADY_EXISTS", c.conf, c.f)
                  ELSE ConfResult(c.werr, c.conf, c.f)

\* lines 725-743
libnet_conf_create_share(conf, servicename, f) ==
    LET e == libnet_conf_share_exists(conf, servicename, f)
    IN  IF e.ret THEN ConfResult("WERR_ALREADY_EXISTS", conf, e.f)
        ELSE libnet_conf_reg_create_service_key(conf, servicename, e.f)

\* lines 232-295: the checks of the parameter, then reg_setvalue
libnet_conf_reg_set_value(conf, service, valname, valstr, f) ==
    LET canon_valname == lp_canonicalize_parameter(valname)
    IN  IF canon_valname = "" THEN ConfResult("WERR_INVALID_PARAM", conf, f)
        ELSE IF service # GLOBAL_NAME /\ lp_parameter_is_global(valname)
             THEN ConfResult("WERR_INVALID_PARAM", conf, f)
        ELSE IF f = 1 THEN ConfResult("WERR_NOMEM", conf, 0)
        ELSE ConfResult("WERR_OK",
                        [conf EXCEPT ![service] = (canon_valname :> valstr) @@ @], Dec(f))

\* lines 794-819
libnet_conf_set_parameter(conf, service, param, valstr, f) ==
    LET e == libnet_conf_share_exists(conf, service, f)
        o == libnet_conf_reg_open_service_key(conf, service, e.f)
    IN  IF ~e.ret THEN ConfResult("WERR_NO_SUCH_SERVICE", conf, e.f)
        ELSE IF o.werr # "WERR_OK" THEN o
        ELSE libnet_conf_reg_set_value(conf, service, param, valstr, o.f)

\* lines 847-893: the value as a string (talloc_asprintf may fail)
libnet_conf_get_parameter(conf, service, param, f) ==
    LET e == libnet_conf_share_exists(conf, service, f)
        o == libnet_conf_reg_open_service_key(conf, service, e.f)
        x == libnet_conf_value_exists(conf, service, param, o.f)
    IN  IF ~e.ret THEN ConfResult("WERR_NO_SUCH_SERVICE", conf, e.f)
        ELSE IF o.werr # "WERR_OK" THEN o
        ELSE IF ~x.ret THEN ConfResult("WERR_INVALID_PARAM", conf, x.f)
        ELSE IF x.f = 1 THEN ConfResult("WERR_BADFILE", conf, 0)
        ELSE IF x.f = 2 THEN ConfResult("WERR_NOMEM", conf, 0)
        ELSE [ConfResult("WERR_OK", conf, Dec(Dec(x.f))) EXCEPT !.valstr = conf[service][param]]

\* a deletion that does not test whether the value is there
DeleteUnchecked(conf, service, param, f) ==
    LET e == libnet_conf_share_exists(conf, service, f)
    IN  IF ~e.ret THEN ConfResult("WERR_NO_SUCH_SERVICE", conf, e.f)
        ELSE ConfResult("WERR_OK",
                        [conf EXCEPT ![service] =
                            [n \in DOMAIN @ \ {param} |-> @[n]]], e.f)

\* lines 923-951
libnet_conf_delete_parameter(conf, service, param, f) ==
    LET e == libnet_conf_share_exists(conf, service, f)
        o == libnet_conf_reg_open_service_key(conf, service, e.f)
        x == libnet_conf_value_exists(conf, service, param, o.f)
    IN  IF ~e.ret THEN ConfResult("WERR_NO_SUCH_SERVICE", conf, e.f)
        ELSE IF o.werr # "WERR_OK" THEN o
        ELSE IF ~x.ret THEN ConfResult("WERR_INVALID_PARAM", conf, x.f)
        ELSE IF x.f = 1 THEN ConfResult("WERR_BADFILE", conf, 0)
        ELSE ConfResult("WERR_OK",
                        [conf EXCEPT ![service] =
                            [n \in DOMAIN @ \ {param} |-> @[n]]], Dec(x.f))

\* a call on [global] that creates nothing
LeaveGlobal(conf, f) == ConfResult("WERR_OK", conf, f)

\* lines 832-837, 907-912 and 963-968: create [global] when it is not there
CreateGlobal(conf, f) ==
    LET e == libnet_conf_share_exists(conf, GLOBAL_NAME, f)
    IN  IF e.ret THEN ConfResult("WERR_OK", conf, e.f)
        ELSE libnet_conf_create_share(conf, GLOBAL_NAME, e.f)

\* lines 827-842
libnet_conf_set_global_parameter(conf, param, val, f) ==
    LET g == CreateGlobal(conf, f)
    IN  IF g.werr # "WERR_OK" THEN g
        ELSE libnet_conf_set_parameter(g.conf, GLOBAL_NAME, param, val, g.f)

\* lines 900-918
libnet_conf_get_global_parameter(conf, param, f) ==
    LET g == CreateGlobal(conf, f)
    IN  IF g.werr # "WERR_OK" THEN g
        ELSE libnet_conf_get_parameter(g.conf, GLOBAL_NAME, param, g.f)

\* lines 958-973
libnet_conf_delete_global_parameter(conf, param, f) ==
    LET g == CreateGlobal(conf, f)
    IN  IF g.werr # "WERR_OK" THEN g
        ELSE libnet_conf_delete_parameter(g.conf, GLOBAL_NAME, param, g.f)

\* lines 772-789: the base key, then reg_deletekey_recursive
libnet_conf_delete_share(conf, servicename, f) ==
    LET b == libnet_conf_reg_open_base_key(conf, f)
    IN  IF b.werr # "WERR_OK" THEN b
        ELSE IF b.f = 1 THEN ConfResult("WERR_ACCESS_DENIED", conf, 0)
        ELSE IF servicename \notin DOMAIN conf THEN ConfResult("WERR_BADFILE", conf, Dec(b.f))
        ELSE ConfResult("WERR_OK", [n \in DOMAIN conf \ {servicename} |-> conf[n]], Dec(b.f))

\* lines 34-59: the array with one more string
libnet_conf_add_string_to_array(array, string, f) ==
    IF f = 1 THEN [werr |-> "WERR_NOMEM", array |-> array, f |-> 0]
    ELSE [werr |-> "WERR_OK", array |-> Append(array, string), f |-> Dec(f)]

\* reg_enumkey: the name number idx (from 0) of the subkey list
reg_enumkey(keys, idx, f) ==
    IF f = 1 THEN [werr |-> "WERR_ACCESS_DENIED", name |-> "", f |-> 0]
    ELSE IF idx >= Len(keys) THEN [werr |-> "WERR_NO_MORE_ITEMS", name |-> "", f |-> Dec(f)]
    ELSE [werr |-> "WERR_OK", name |-> keys[idx + 1], f |-> Dec(f)]

\* lines 666-682: the loop over reg_enumkey, which skips GLOBAL_NAME
RECURSIVE ShareNamesLoop(_, _, _, _)
ShareNamesLoop(keys, count, names, f) ==
    LET e == reg_enumkey(keys, count, f)
        a == libnet_conf_add_string_to_array(names, e.name, e.f)
    IN  IF e.werr # "WERR_OK" THEN [werr |-> e.werr, array |-> names, f |-> e.f]
        ELSE IF e.name = GLOBAL_NAME THEN ShareNamesLoop(keys, count + 1, names, e.f)
        ELSE IF a.werr # "WERR_OK" THEN a
        ELSE ShareNamesLoop(keys, count + 1, a.array, a.f)

\* lines 625-699
libnet_conf_get_share_names(conf, keys, f) ==
    LET e == libnet_conf_share_exists(conf, GLOBAL_NAME, Dec(f))
        g == IF e.ret THEN libnet_conf_add_string_to_array(<<>>, GLOBAL_NAME, e.f)
             ELSE [werr |-> "WERR_OK", array |-> <<>>, f |-> e.f]
        b == libnet_conf_reg_open_base_key(conf, g.f)
        l == ShareNamesLoop(keys, 0, g.array, b.f)
    IN  IF f = 1 THEN ConfResult("WERR_NOMEM", conf, 0)
        ELSE IF g.werr # "WERR_OK" THEN ConfResult(g.werr, conf, g.f)
        ELSE IF b.werr # "WERR_OK" THEN b
        ELSE IF l.werr # "WERR_NO_MORE_ITEMS" THEN ConfResult(l.werr, conf, l.f)
        ELSE [ConfResult("WERR_OK", conf, l.f) EXCEPT !.names = l.array]

\* more than the number of steps of any call
MaxConfSteps == 16

Services == {GLOBAL_NAME, "share"}

Params == {"path", "directory", "workgroup", "bogus"}

Valstrs == {"v1", "v2"}

\* the steps the call R takes when none fails
ConfSteps(R(_)) == MaxConfSteps - R(MaxConfSteps).f

\* the subkey list of KEY_SMBCONF when the service keys are those of conf:
\* reg_deletekey_recursive takes the name from the list, reg_createkey
\* appends the new name
SubkeysOf(keys, conf) ==
    LET kept == SelectSeq(keys, LAMBDA n : n \in DOMAIN conf)
        new  == DOMAIN conf \ {keys[i] : i \in 1..Len(keys)}
    IN  IF new = {} THEN kept ELSE Append(kept, CHOOSE n \in new : TRUE)

\* one call of libnet_conf: r is what the function of the call yields when
\* step fault fails
ConfCall(op, service, param, fault, r) ==
    /\ smbconf' = r.conf
    /\ smbconf_keys' = SubkeysOf(smbconf_keys, r.conf)
    /\ lastConf' = [op |-> op, service |-> service, param |-> param, fault |-> fault,
                    werr |-> r.werr, valstr |-> r.valstr, names |-> r.names,
                    pre |-> smbconf]
    /\ UNCHANGED <<tvars, hvars>>

\* at most one step of the call R fails
ConfFaults(R(_)) == 0..ConfSteps(R)

libnet_conf_create_share_call(servicename) ==
    \E fault \in ConfFaults(LAMBDA f : libnet_conf_create_share(smbconf, servicename, f)) :
       ConfCall("create_share", servicename, "", fault,
                libnet_conf_create_share(smbconf, servicename, fault))

libnet_conf_delete_share_call(servicename) ==
    \E fault \in ConfFaults(LAMBDA f : libnet_conf_delete_share(smbconf, servicename, f)) :
       ConfCall("delete_share", servicename, "", fault,
                libnet_conf_delete_share(smbconf, servicename, fault))

libnet_conf_set_parameter_call(service, param, valstr) ==
    \E fault \in ConfFaults(LAMBDA f : libnet_conf_set_parameter(smbconf, service, param, valstr, f)) :
       ConfCall("set_parameter", service, param, fault,
                libnet_conf_set_parameter(smbconf, service, param, valstr, fault))

libnet_conf_get_parameter_call(service, param) ==
    \E fault \in ConfFaults(LAMBDA f : libnet_conf_get_parameter(smbconf, service, param, f)) :
       ConfCall("get_parameter", service, param, fault,
                libnet_conf_get_parameter(smbconf, service, param, fault))

libnet_conf_delete_parameter_call(service, param) ==
    \E fault \in ConfFaults(LAMBDA f : libnet_conf_delete_parameter(smbconf, service, param, f)) :
       ConfCall("delete_parameter", service, param, fault,
                libnet_conf_delete_parameter(smbconf, service, param, fault))

libnet_conf_set_global_parameter_call(param, val) ==
    \E fault \in ConfFaults(LAMBDA f : libnet_conf_set_global_parameter(smbconf, param, val, f)) :
       ConfCall("set_global_parameter", GLOBAL_NAME, param, fault,
                libnet_conf_set_global_parameter(smbconf, param, val, fault))

libnet_conf_get_global_parameter_call(param) ==
    \E fault \in ConfFaults(LAMBDA f : libnet_conf_get_global_parameter(smbconf, param, f)) :
       ConfCall("get_global_parameter", GLOBAL_NAME, param, fault,
                libnet_conf_get_global_parameter(smbconf, param, fault))

libnet_conf_delete_global_parameter_call(param) ==
    \E fault \in ConfFaults(LAMBDA f : libnet_conf_delete_global_parameter(smbconf, param, f)) :
       ConfCall("delete_global_parameter", GLOBAL_NAME, param, fault,
                libnet_conf_delete_global_parameter(smbconf, param, fault))

NextConf ==
    \/ \E n \in Services : libnet_conf_create_share_call(n)
    \/ \E n \in Services : libnet_conf_delete_share_call(n)
    \/ \E n \in Services, q \in Params, v \in Valstrs : libnet_conf_set_parameter_call(n, q, v)
    \/ \E n \in Services, q \in Params : libnet_conf_get_parameter_call(n, q)
    \/ \E n \in Services, q \in Params : libnet_conf_delete_parameter_call(n, q)
    \/ \E q \in Params, v \in Valstrs : libnet_conf_set_global_parameter_call(q, v)
    \/ \E q \in Params : libnet_conf_get_global_parameter_call(q)
    \/ \E q \in Params : libnet_conf_delete_global_parameter_call(q)

SpecConf == Init /\ [][NextConf]_vars

(***************************************************************************)
(* The list of the shares: shares are created and deleted, and             *)
(* libnet_conf_get_share_names lists them.                                 *)
(***************************************************************************)

ShareNames == {GLOBAL_NAME, "share", "tmp"}

libnet_conf_get_share_names_call ==
    \E fault \in ConfFaults(LAMBDA f : libnet_conf_get_share_names(smbconf, smbconf_keys, f)) :
       ConfCall("get_share_names", "", "", fault,
                libnet_conf_get_share_names(smbconf, smbconf_keys, fault))

NextShares ==
    \/ \E n \in ShareNames : libnet_conf_create_share_call(n)
    \/ \E n \in ShareNames : libnet_conf_delete_share_call(n)
    \/ libnet_conf_get_share_names_call

SpecShares == Init /\ [][NextShares]_vars

(***************************************************************************)
(* Properties                                                              *)
(***************************************************************************)

\* the last call of process p has returned and was a call of op
Done(p, op) == ps[p].pc = "idle" /\ ps[p].op = op

\* the two keys name the same record
SameKey(key1, key2) == normalize_reg_path(key1) = normalize_reg_path(key2)

(* C1: subkey round trip.  When regdb_store_keys(p, L) has committed and   *)
(* nothing else has committed since, a regdb_fetch_keys(p) that reads the  *)
(* record returns the names of L in the order of L, and their number.      *)
C1_RoundTrip ==
    LET r == ps[SeqProc]
    IN  (Done(SeqProc, "fetch_keys") /\ r.got /\ r.pre.last.set /\ SameKey(r.pre.last.key, r.key))
        => (r.ctr.subkeys = r.pre.last.subkeys /\ r.ret = Len(r.pre.last.subkeys))

\* the key of the subkey name of the key P
ChildKey(P, name) == P \o <<"\\">> \o name

\* the names of the list old that the container ctr does not hold
RemovedNames(old, ctr) ==
    {old[i] : i \in {j \in 1..Len(old) : ~regsubkey_ctr_key_exists(ctr, old[j])}}

\* regdb_store_keys of SeqProc has returned true after a transaction
StoreKeysCommitted ==
    Done(SeqProc, "store_keys") /\ ps[SeqProc].ok /\ ps[SeqProc].opened

\* what regdb_fetch_keys(key) may return in the tdb db
FetchedKeys(db, seq, key) ==
    {regdb_fetch_keys(db, seq, key, ZeroSubkeyCtr, u, EnvOk) : u \in Uninit}

IsPrefix(a, b) == Len(a) <= Len(b) /\ SubSeq(b, 1, Len(a)) = a

\* the record x of the tdb is the subkey record or the value record of the
\* key or of a key below it
RecordUnder(x, key) ==
    \/ x \in {normalize_reg_path(key), ValueKey(key)}
    \/ IsPrefix(normalize_reg_path(key) \o <<"/">>, x)
    \/ IsPrefix(ValueKey(key) \o <<"/">>, x)

(* C3: cascade deletion is recursive.  When regdb_store_keys(P, Lnew) has  *)
(* committed, no subkey record and no value record is left for P\c or for  *)
(* any key below P\c, for every name c of the old list that is not in      *)
(* Lnew.                                                                   *)
C3_CascadeRecursive ==
    LET r == ps[SeqProc]
    IN  StoreKeysCommitted =>
          \A c \in RemovedNames(r.old, r.ctr) :
             \A x \in DOMAIN tdb : ~RecordUnder(x, ChildKey(r.key, c))

(* C4: cascade deletion removes the security descriptor.  When             *)
(* regdb_store_keys(P, Lnew) has committed and a security descriptor was   *)
(* stored for P\c, c a name of the old list that is not in Lnew, then      *)
(* regdb_get_secdesc(P\c) finds no record.                                 *)
C4_CascadeDeletesSecdesc ==
    LET r == ps[SeqProc]
    IN  StoreKeysCommitted =>
          \A c \in RemovedNames(r.old, r.ctr) :
             SecdescKey(ChildKey(r.key, c)) \in DOMAIN r.pre.tdb
                => regdb_get_secdesc(tdb, ChildKey(r.key, c), TRUE).werr = "WERR_BADFILE"

\* the record x of the tdb is a subkey record
IsSubkeyRecord(x) == x # <<>> /\ Head(x) \notin {REG_VALUE_PREFIX[1], REG_SECDESC_PREFIX[1]}

(* C5: every listed child is addressable.  In every committed state of the *)
(* tdb, every name that regdb_fetch_keys finds in the subkey record of a   *)
(* key K has a subkey record of its own at K\name.                         *)
C5_ListedChildAddressable ==
    \A x \in DOMAIN tdb :
       IsSubkeyRecord(x) =>
          \A f \in FetchedKeys(tdb, seqnum, x) :
             \A i \in 1..Len(f.ctr.subkeys) :
                normalize_reg_path(ChildKey(x, f.ctr.subkeys[i])) \in DOMAIN tdb

StoredListIdentical ==
    LET r == ps[SeqProc]
    IN  /\ normalize_reg_path(r.key) \in DOMAIN r.pre.tdb
        /\ \A f \in FetchedKeys(r.pre.tdb, r.pre.seqnum, r.key) :
              f.ctr.subkeys = r.ctr.subkeys

\* the call of SeqProc started no transaction and changed nothing
NoOp ==
    LET r == ps[SeqProc]
    IN  ~r.opened /\ tdb = r.pre.tdb /\ seqnum = r.pre.seqnum

(* C7: identical store is a no-op, for lists with at least one name.  A    *)
(* regdb_store_keys(p, L) with L not empty, called when the list stored    *)
(* for p is L, starts no transaction and leaves the tdb and its sequence   *)
(* number as they were.                                                    *)
C7_IdenticalStoreNoOp ==
    (Done(SeqProc, "store_keys") /\ StoredListIdentical /\ ps[SeqProc].ctr.subkeys # <<>>)
        => NoOp

\* regdb_store_keys returned true for a list identical to the stored one
C7_Witness ==
    /\ Done(SeqProc, "store_keys") /\ StoredListIdentical
    /\ ps[SeqProc].ctr.subkeys # <<>>
    /\ ps[SeqProc].ok
    /\ ps[SeqProc].pre.last.set

\* C7 as stated, for lists of any length, the empty list too
C7_AnyLength ==
    (Done(SeqProc, "store_keys") /\ StoredListIdentical) => NoOp

\* both writers have returned true from regdb_store_keys
BothStored == \A p \in ConcProcs : Done(p, "store_keys") /\ ps[p].ok

\* the names the container of a writer or the initial list holds
OfferedNames ==
    {InitialList[i] : i \in 1..Len(InitialList)}
       \cup UNION {{ps[p].ctr.subkeys[i] : i \in 1..Len(ps[p].ctr.subkeys)} : p \in ConcProcs}

(* C8: no lost update between concurrent writers.  When two processes have *)
(* run regdb_store_keys(P, L1) and regdb_store_keys(P, L2) concurrently    *)
(* and both have returned true, regdb_fetch_keys(P) returns L1 or L2,      *)
(* every name it returns has a subkey record, and every name of the        *)
(* initial list, of L1 or of L2 that it does not return has neither a      *)
(* subkey record nor a value record.                                       *)
C8_NoLostUpdate ==
    BothStored =>
       \A f \in FetchedKeys(tdb, seqnum, k) :
          /\ f.ctr.subkeys \in {ps[p].ctr.subkeys : p \in ConcProcs}
          /\ \A i \in 1..Len(f.ctr.subkeys) :
                normalize_reg_path(ChildKey(k, f.ctr.subkeys[i])) \in DOMAIN tdb
          /\ \A c \in OfferedNames :
                ~regsubkey_ctr_key_exists(f.ctr, c)
                   => /\ normalize_reg_path(ChildKey(k, c)) \notin DOMAIN tdb
                      /\ ValueKey(ChildKey(k, c)) \notin DOMAIN tdb

\* process p holds the container of a fetch that read the record
Holding(p) == ps[p].pc = "idle" /\ ps[p].op \in {"fetch_keys", "fetch_values"} /\ ps[p].got

\* what need_update returns now for the container process p holds
NeedUpdate(p) ==
    IF ps[p].op = "fetch_keys"
    THEN regdb_subkeys_need_update(ps[p].ctr, seqnum)
    ELSE regdb_values_need_update(ps[p].values, seqnum)

(* C9: the stamp reflects the fetched state.  Whenever need_update returns *)
(* false for the container of a fetch, the record the fetch read is still  *)
(* byte for byte what the fetch read.                                      *)
C9_StampReflectsFetch ==
    \A p \in AllProcs :
       (Holding(p) /\ ~NeedUpdate(p)) => tdb_fetch_bystring(tdb, FetchPath(ps[p])) = ps[p].dbuf

\* need_update has returned false, and would again, for a record fetched
\* after commits of a concurrent writer
C9_Witness ==
    \E p \in AllProcs :
       /\ Holding(p) /\ ~NeedUpdate(p)
       /\ ps[p].asked /\ ~ps[p].need
       /\ ps[p].dbuf.dptr
       /\ ps[p].since = "none"
       /\ \E q \in AllProcs \ {p} : ps[q].pc # "idle"

(* C10: staleness detection.  For the container of a fetch, need_update    *)
(* returns false as long as no transaction has committed since the fetch   *)
(* stamped it, and true once a transaction that changed a record has       *)
(* committed.                                                              *)
C10_StalenessDetection ==
    \A p \in AllProcs :
       Holding(p) => /\ ps[p].since = "none" => ~NeedUpdate(p)
                     /\ ps[p].since = "change" => NeedUpdate(p)
                     /\ ps[p].asked /\ ps[p].since = "none" => ~ps[p].need

\* need_update has returned true after two commits since the fetch
C10_Witness ==
    \E p \in AllProcs :
       /\ Holding(p) /\ ps[p].since = "change"
       /\ ps[p].asked /\ ps[p].need
       /\ seqnum > (IF ps[p].op = "fetch_keys" THEN ps[p].ctr.seqnum ELSE ps[p].values.seqnum) + 1

\* the symbols c and d are one letter in either case, or the two delimiters
EquivChar(c, d) ==
    \/ c = d
    \/ {c, d} \in {{"a", "A"}, {"b", "B"}, {"k", "K"}, {"w", "W"}, {"x", "X"},
                   {"y", "Y"}, {"z", "Z"}, {"\\", "/"}}

\* the raw paths p and q differ only by letter case or by the delimiter
EquivPath(p, q) == Len(p) = Len(q) /\ \A i \in 1..Len(p) : EquivChar(p[i], q[i])

\* the other ways of naming the key of the last call of SeqProc
OtherSpellings == {y \in Spellings : EquivPath(ps[SeqProc].key, y)}

(* C11: case- and delimiter-insensitivity.  For raw paths x and y that     *)
(* differ only by letter case or by the delimiter, every operation called  *)
(* with x reads or writes the record that the operations called with y     *)
(* read and write: the record keys agree, a fetch or get with x returns    *)
(* what one with y would, a store or set with x is found under y, and      *)
(* regdb_fetch_keys(y) returns the list a regdb_store_keys(x, L) stored.   *)
C11_SpellingInsensitive ==
    LET r == ps[SeqProc]
    IN  \A y \in OtherSpellings :
           /\ FetchKeysPath(r.key) = normalize_reg_path(y)
           /\ FetchKeysPath(r.key) = FetchKeysPath(y)
           /\ ValueKey(r.key) = ValueKey(y)
           /\ SecdescKey(r.key) = SecdescKey(y)
           /\ (Done(SeqProc, "fetch_keys") /\ r.got)
                 => /\ r.ctr.subkeys \in
                          {f.ctr.subkeys : f \in FetchedKeys(r.pre.tdb, r.pre.seqnum, y)}
                    /\ (r.pre.last.set /\ EquivPath(r.pre.last.key, y))
                          => r.ctr.subkeys = r.pre.last.subkeys
           /\ (Done(SeqProc, "fetch_values") /\ r.got)
                 => r.values.values =
                       regdb_fetch_values(r.pre.tdb, r.pre.seqnum, y, ZeroValCtr, EnvOk).ctr.values
           /\ (Done(SeqProc, "get_secdesc") /\ r.werr # "WERR_NOMEM")
                 => regdb_get_secdesc(r.pre.tdb, y, TRUE) = [werr |-> r.werr, secdesc |-> r.sd]
           /\ (Done(SeqProc, "store_keys") /\ r.ok /\ r.opened)
                 => \A f \in FetchedKeys(tdb, seqnum, y) : f.ctr.subkeys = r.ctr.subkeys
           /\ (Done(SeqProc, "store_values") /\ r.ok)
                 => regdb_fetch_values(tdb, seqnum, y, ZeroValCtr, EnvOk).ctr.values
                       = r.values.values
           /\ (Done(SeqProc, "set_secdesc") /\ r.werr = "WERR_OK")
                 => regdb_get_secdesc(tdb, y, TRUE) = [werr |-> "WERR_OK", secdesc |-> r.sd]

\* regdb_fetch_keys returned the list stored under another spelling of its key
C11_Witness ==
    LET r == ps[SeqProc]
    IN  /\ Done(SeqProc, "fetch_keys") /\ r.got
        /\ r.pre.last.set /\ r.pre.last.key # r.key /\ EquivPath(r.pre.last.key, r.key)
        /\ r.ctr.subkeys = r.pre.last.subkeys
        /\ r.ctr.subkeys # <<>>
        /\ r.key # normalize_reg_path(r.key)

(* C12: canonicalization is idempotent.  For the path p of every call,     *)
(* canonicalizing the canonical form of p gives the canonical form of p,   *)
(* and the value key and the secdesc key of the canonical form of p are    *)
(* those of p.                                                             *)
C12_CanonicalizeIdempotent ==
    \A p \in {ps[q].key : q \in AllProcs} :
       /\ FetchKeysPath(FetchKeysPath(p)) = FetchKeysPath(p)
       /\ normalize_reg_path(normalize_reg_path(p)) = normalize_reg_path(p)
       /\ normalize_dbkey(normalize_dbkey(p)) = normalize_dbkey(p)
       /\ ValueKey(FetchKeysPath(p)) = ValueKey(p)
       /\ SecdescKey(FetchKeysPath(p)) = SecdescKey(p)

\* a call was made with a path that is not in canonical form
C12_Witness ==
    /\ Done(SeqProc, "fetch_values")
    /\ ps[SeqProc].got
    /\ FetchKeysPath(ps[SeqProc].key) # ps[SeqProc].key
    /\ \E i \in 1..Len(ps[SeqProc].key) : ps[SeqProc].key[i] = "\\"

\* the entries have distinct names, none empty, and payloads of one byte or more
WellFormedValues(E) ==
    /\ \A i \in 1..Len(E) : E[i].valuename # <<>> /\ E[i].size >= 1 /\ E[i].size = Len(E[i].data_p)
    /\ \A i, j \in 1..Len(E) : i # j => E[i].valuename # E[j].valuename

\* what a regdb_fetch_values(key) that reads the tdb now returns
FetchedValues(key) == regdb_fetch_values(tdb, seqnum, key, ZeroValCtr, EnvOk)

(* C13: value round trip.  When regdb_store_values(p, E) has returned true *)
(* for entries E with distinct non-empty names and payloads of at least    *)
(* one byte, a regdb_fetch_values(p) that follows returns the number of    *)
(* entries of E, and the names, types, sizes and payload bytes of E in the *)
(* order of E.                                                             *)
C13_ValueRoundTrip ==
    LET r == ps[SeqProc]
    IN  (Done(SeqProc, "store_values") /\ r.ok /\ WellFormedValues(r.values.values))
           => /\ FetchedValues(r.key).ret = Len(r.values.values)
              /\ FetchedValues(r.key).ctr.values = r.values.values

\* two values were stored by a transaction and are fetched in their order
C13_Witness ==
    LET r == ps[SeqProc]
    IN  /\ Done(SeqProc, "store_values") /\ r.ok /\ r.opened
        /\ Len(r.values.values) = 2
        /\ WellFormedValues(r.values.values)
        /\ FetchedValues(r.key).ret = 2
        /\ FetchedValues(r.key).ctr.values[1].valuename = <<"w">>

\* the value record of the key of the call of SeqProc, before the call, is
\* the encoding of the values of the call
StoredValuesIdentical ==
    LET r == ps[SeqProc]
    IN  /\ ValueKey(r.key) \in DOMAIN r.pre.tdb
        /\ r.pre.tdb[ValueKey(r.key)] = PackedValues(r.values)

(* C14: regdb_store_values no-op.  A regdb_store_values(p, E) that found   *)
(* the memory for its key string, called when the value record of p is     *)
(* byte for byte the encoding of E, returns true, starts no transaction    *)
(* and leaves the tdb and its sequence number as they were; called when    *)
(* the record is absent or differs, it returns true only after a commit    *)
(* that replaced the value record of p by the encoding of E and changed no *)
(* other record, and leaves the tdb as it was when it returns false.       *)
C14_StoreValuesNoOp ==
    LET r == ps[SeqProc]
    IN  (Done(SeqProc, "store_values") /\ ~r.nomem)
           => IF StoredValuesIdentical
              THEN r.ok /\ NoOp
              ELSE /\ r.ok => /\ tdb = Put(r.pre.tdb, ValueKey(r.key), PackedValues(r.values))
                              /\ seqnum = r.pre.seqnum + 1
                   /\ ~r.ok => tdb = r.pre.tdb /\ seqnum = r.pre.seqnum

\* regdb_store_values returned true for values identical to the stored ones,
\* in a tdb that holds other records
C14_Witness ==
    LET r == ps[SeqProc]
    IN  /\ Done(SeqProc, "store_values") /\ StoredValuesIdentical
        /\ r.ok /\ ~r.opened
        /\ Len(r.values.values) = 2
        /\ \E key \in DOMAIN tdb : key # ValueKey(r.key)
        /\ tdb = r.pre.tdb

\* the subkey record of a key without subkeys: the count 0 and nothing else
EmptyRecord == [dptr |-> TRUE, dsize |-> 4, cells |-> {At(0, CellD(0))}]

(* C15: absent-record outcomes.  A regdb_fetch_keys that reads the tdb     *)
(* returns -1 when the key has no subkey record, and returns 0 and no name *)
(* when the record of the key holds an empty list; a regdb_fetch_values    *)
(* that reads the tdb returns 0 and no value when the key has no value     *)
(* record.                                                                 *)
C15_AbsentRecordOutcomes ==
    LET r == ps[SeqProc]
    IN  /\ (Done(SeqProc, "fetch_keys") /\ r.got)
              => /\ FetchKeysPath(r.key) \notin DOMAIN r.pre.tdb => r.ret = -1
                 /\ (/\ FetchKeysPath(r.key) \in DOMAIN r.pre.tdb
                     /\ r.pre.tdb[FetchKeysPath(r.key)] = EmptyRecord)
                       => r.ret = 0 /\ r.ctr.subkeys = <<>>
        /\ (Done(SeqProc, "fetch_values") /\ r.got /\ ValueKey(r.key) \notin DOMAIN r.pre.tdb)
              => r.ret = 0 /\ r.values.values = <<>>

\* regdb_fetch_keys returned -1 for a key without a record, in a tdb that
\* holds the record of a key without subkeys
C15_Witness ==
    LET r == ps[SeqProc]
    IN  /\ Done(SeqProc, "fetch_keys") /\ r.got
        /\ FetchKeysPath(r.key) \notin DOMAIN tdb
        /\ tdb = r.pre.tdb
        /\ r.ret = -1
        /\ \E x \in DOMAIN tdb : tdb[x] = EmptyRecord
                                    /\ \A f \in FetchedKeys(tdb, seqnum, x) : f.ret = 0

(* C16: reserve empty node.  When regdb_store_keys(p, []) has returned     *)
(* true for a key p that had no subkey record, p has the record of an      *)
(* empty list, and a regdb_fetch_keys(p) that follows returns 0 and no     *)
(* name, not -1.                                                           *)
C16_ReserveEmptyNode ==
    LET r == ps[SeqProc]
    IN  (/\ Done(SeqProc, "store_keys") /\ r.ok
         /\ r.ctr.subkeys = <<>>
         /\ normalize_reg_path(r.key) \notin DOMAIN r.pre.tdb)
           => /\ normalize_reg_path(r.key) \in DOMAIN tdb
              /\ tdb[normalize_reg_path(r.key)] = EmptyRecord
              /\ \A f \in FetchedKeys(tdb, seqnum, r.key) : f.ret = 0 /\ f.ctr.subkeys = <<>>

\* regdb_store_keys(p, []) has created the record of p by a transaction
C16_Witness ==
    LET r == ps[SeqProc]
    IN  /\ Done(SeqProc, "store_keys") /\ r.ok /\ r.opened
        /\ r.ctr.subkeys = <<>>
        /\ normalize_reg_path(r.key) \notin DOMAIN r.pre.tdb
        /\ normalize_reg_path(r.key) \in DOMAIN tdb
        /\ seqnum = r.pre.seqnum + 1

\* what a regdb_get_secdesc(key) that finds its memory returns in the tdb db
GetSecdesc(db, key) == regdb_get_secdesc(db, key, TRUE)

NotFound == [werr |-> "WERR_BADFILE", secdesc |-> NullSecdesc]

(* C17: descriptor null-delete.  When regdb_set_secdesc(p, NULL) has        *)
(* returned WERR_OK, after a regdb_set_secdesc(p, D) or not, no security   *)
(* descriptor record of p exists and regdb_get_secdesc(p) returns          *)
(* WERR_BADFILE; a regdb_get_secdesc of a key without such a record        *)
(* returns WERR_BADFILE.                                                   *)
C17_NullDeletes ==
    LET r == ps[SeqProc]
    IN  /\ (Done(SeqProc, "set_secdesc") /\ r.sd = NullSecdesc /\ r.werr = "WERR_OK")
              => /\ SecdescKey(r.key) \notin DOMAIN tdb
                 /\ GetSecdesc(tdb, r.key) = NotFound
        /\ (Done(SeqProc, "get_secdesc") /\ r.werr # "WERR_NOMEM"
               /\ SecdescKey(r.key) \notin DOMAIN r.pre.tdb)
              => r.werr = "WERR_BADFILE" /\ r.sd = NullSecdesc

\* regdb_set_secdesc(p, NULL) has deleted the descriptor that a
\* regdb_set_secdesc(p, D) had stored
C17_Witness ==
    LET r == ps[SeqProc]
    IN  /\ Done(SeqProc, "set_secdesc") /\ r.sd = NullSecdesc /\ r.werr = "WERR_OK"
        /\ GetSecdesc(r.pre.tdb, r.key).werr = "WERR_OK"
        /\ GetSecdesc(r.pre.tdb, r.key).secdesc \in {D1, D2}
        /\ GetSecdesc(tdb, r.key) = NotFound

SecdescPaths == {k, ka}

\* a successful regdb_set_secdesc(p, D), D not NULL, leaves D as the descriptor
\* of p and every other record as it was
SetSecdescStored ==
    LET r == ps[SeqProc]
    IN  (Done(SeqProc, "set_secdesc") /\ r.sd # NullSecdesc /\ r.werr = "WERR_OK")
           => /\ GetSecdesc(tdb, r.key) = [werr |-> "WERR_OK", secdesc |-> r.sd]
              /\ DOMAIN tdb = DOMAIN r.pre.tdb \cup {SecdescKey(r.key)}
              /\ \A x \in DOMAIN r.pre.tdb : x # SecdescKey(r.key) => tdb[x] = r.pre.tdb[x]

\* a regdb_get_secdesc returns the descriptor the tdb holds
GetSecdescReturnsStored ==
    LET r == ps[SeqProc]
    IN  (Done(SeqProc, "get_secdesc") /\ r.werr # "WERR_NOMEM")
           => GetSecdesc(r.pre.tdb, r.key) = [werr |-> r.werr, secdesc |-> r.sd]

\* a step changes the descriptor of a key x only as the commit of a
\* regdb_set_secdesc for x, and to the descriptor of that call
SecdescChangedOnlyBySet ==
    \A x \in SecdescPaths :
       GetSecdesc(tdb', x) # GetSecdesc(tdb, x)
          => /\ ps[SeqProc].op = "set_secdesc"
             /\ ps[SeqProc].pc = "commit_write"
             /\ SecdescKey(ps[SeqProc].key) = SecdescKey(x)
             /\ ps'[SeqProc].werr = "WERR_OK"
             /\ GetSecdesc(tdb', x) =
                   IF ps[SeqProc].sd = NullSecdesc THEN NotFound
                   ELSE [werr |-> "WERR_OK", secdesc |-> ps[SeqProc].sd]

(* C19: descriptor round trip.  After any sequence of calls, a             *)
(* regdb_get_secdesc(p) returns the descriptor of the last                 *)
(* regdb_set_secdesc(p, D), D not NULL, that returned WERR_OK: such a call *)
(* leaves D as the descriptor of p, over an older descriptor too, and      *)
(* every other record as it was; a regdb_get_secdesc returns the stored    *)
(* descriptor; and no step of any other call, nor of a failed call,        *)
(* changes the descriptor of any key.                                      *)
C19_SecdescRoundTrip ==
    /\ [](SetSecdescStored /\ GetSecdescReturnsStored)
    /\ [][SecdescChangedOnlyBySet]_vars

\* regdb_set_secdesc(p, D) has replaced another descriptor of p, and another
\* key has a descriptor
C19_Witness ==
    LET r == ps[SeqProc]
    IN  /\ Done(SeqProc, "set_secdesc") /\ r.sd = D2 /\ r.werr = "WERR_OK"
        /\ GetSecdesc(r.pre.tdb, r.key).secdesc = D1
        /\ GetSecdesc(tdb, r.key).secdesc = D2
        /\ \E x \in SecdescPaths :
              /\ SecdescKey(x) # SecdescKey(r.key)
              /\ GetSecdesc(tdb, x).werr = "WERR_OK"

\* the entries i.. of a value record as they were packed, whatever their
\* names and payloads
RECURSIVE PackedEntries(_, _, _, _)
PackedEntries(data, i, num_values, len) ==
    IF i >= num_values THEN <<>>
    ELSE LET e == tdb_unpack_fdB(data, len)
         IN  <<[valuename |-> e.valuename, type |-> e.type, size |-> e.size,
                data_p |-> e.data_p]>>
                \o PackedEntries(data, i + 1, num_values, len + e.ret)

\* the entries of the value record of key in the tdb db
StoredEntries(db, key) ==
    LET data == tdb_fetch_bystring(db, ValueKey(key))
    IN  IF ~data.dptr THEN <<>>
        ELSE PackedEntries(data, 0, tdb_unpack_d(data, 0, 0).d, 4)

\* the entries of the sequence E with the name of the default b
Named(E, b) == {j \in 1..Len(E) : strequal(E[j].valuename, b.valuename)}

(* C20: the seeder preserves edits.  When init_registry_data has returned  *)
(* true, every value that the record of a built-in path held under the     *)
(* name of a built-in default before the call, with whatever type and      *)
(* payload, is in the record with the same type and payload after the      *)
(* call; and a value of that name that was not there before the call is    *)
(* there after it only when no value of that name was there before.        *)
C20_SeederPreservesEdits ==
    LET r == ps[SeqProc]
    IN  (Done(SeqProc, "init_registry_data") /\ r.ok)
           => \A i \in 1..Len(builtin_registry_values) :
                 LET b      == builtin_registry_values[i]
                     before == StoredEntries(r.pre.tdb, b.path)
                     after  == StoredEntries(tdb, b.path)
                 IN  /\ \A j \in Named(before, b) :
                           \E m \in Named(after, b) : after[m] = before[j]
                     /\ (\E m \in Named(after, b) :
                            \A j \in Named(before, b) : after[m] # before[j])
                           => Named(before, b) = {}

\* the keys on the way to the built-in path: the path cut after a component
PathPrefixes(path) ==
    {SubSeq(path, 1, i) : i \in {j \in 1..Len(path) : j = Len(path) \/ path[j + 1] = "\\"}}

\* the component of the path that follows its proper prefix q
NextComponent(path, q) == next_token_talloc(SubSeq(path, Len(q) + 1, Len(path))).token

\* the names that a regdb_fetch_keys(key) can find listed in the tdb db
ListedNames(db, seq, key) ==
    UNION {{f.ctr.subkeys[i] : i \in 1..Len(f.ctr.subkeys)} : f \in FetchedKeys(db, seq, key)}

\* every regdb_fetch_keys(key) in the tdb db finds the name listed
AlwaysListed(db, seq, key, name) ==
    \A f \in FetchedKeys(db, seq, key) : regsubkey_ctr_key_exists(f.ctr, name)

\* init_registry_data of SeqProc has returned true
Seeded == Done(SeqProc, "init_registry_data") /\ ps[SeqProc].ok

\* the key is on the way to a built-in path, or is one
OnBuiltinPath(key) ==
    \E i \in 1..Len(builtin_registry_paths) :
       \E q \in PathPrefixes(builtin_registry_paths[i]) : SameKey(q, key)

(* C21: the seeder builds the full chain.  When init_registry_data has     *)
(* returned true, every built-in path and every key on the way to it has a *)
(* subkey record, and the list of every key on the way holds the next      *)
(* component; every name that the list of a key on the way held before the *)
(* call is in its list after the call, and the subkey record of such a     *)
(* child, unless the child is itself on the way to a built-in path, is     *)
(* what it was before the call.                                            *)
C21_SeederBuildsChain ==
    LET r == ps[SeqProc]
    IN  Seeded =>
          \A i \in 1..Len(builtin_registry_paths) :
             LET path == builtin_registry_paths[i]
             IN  \A q \in PathPrefixes(path) :
                    /\ normalize_reg_path(q) \in DOMAIN tdb
                    /\ q # path =>
                          /\ AlwaysListed(tdb, seqnum, q, NextComponent(path, q))
                          /\ \A c \in ListedNames(r.pre.tdb, r.pre.seqnum, q) :
                                LET x == normalize_reg_path(ChildKey(q, c))
                                IN  /\ AlwaysListed(tdb, seqnum, q, c)
                                    /\ (x \in DOMAIN r.pre.tdb /\ ~OnBuiltinPath(ChildKey(q, c)))
                                          => (x \in DOMAIN tdb /\ tdb[x] = r.pre.tdb[x])

(* C22: the seeder is atomic.  When a step of init_registry_data has       *)
(* failed after its transaction had started, the call returns false, the   *)
(* transaction is gone and every record of the tdb is what it was before   *)
(* the call.                                                               *)
C22_SeederAtomic ==
    LET r == ps[SeqProc]
    IN  (Done(SeqProc, "init_registry_data") /\ r.opened /\ r.failed)
        => (~r.ok /\ txn = NoProc /\ tdb = r.pre.tdb /\ seqnum = r.pre.seqnum)

(* C23: the seeder is idempotent.  When init_registry_data has returned    *)
(* true on a tdb whose last committed transaction was that of an           *)
(* init_registry_data of which every step succeeded, every record of the   *)
(* tdb, subkey record, value record and security descriptor record, is     *)
(* what it was before the call.                                            *)
C23_SeederIdempotent ==
    LET r == ps[SeqProc]
    IN  (Seeded /\ r.pre.last.seeded) => tdb = r.pre.tdb

\* the fetch of process p has returned without the read lock: the lock timed out
TimedOut(p) ==
    /\ ps[p].pc = "idle" /\ ps[p].op \in {"fetch_keys", "fetch_values"}
    /\ ~ps[p].got /\ ~ps[p].nomem

\* what the fetch of the record of key returns when there is no such record
FetchAbsent(op, key) ==
    IF op = "fetch_keys"
    THEN {[ret |-> f.ret, names |-> f.ctr.subkeys] : f \in FetchedKeys(<<>>, seqnum, key)}
    ELSE {[ret |-> f.ret, names |-> f.ctr.values] :
            f \in {regdb_fetch_values(<<>>, seqnum, key, ZeroValCtr, EnvOk)}}

(* C25: a lock timeout equals not found.  A regdb_fetch_keys or            *)
(* regdb_fetch_values whose read lock timed out returns to its caller what *)
(* the fetch of a key without record returns: the same return value and    *)
(* the same content of the container.                                      *)
C25_TimeoutAsNotFound ==
    \A p \in ConcProcs :
       TimedOut(p) =>
          [ret   |-> ps[p].ret,
           names |-> IF ps[p].op = "fetch_keys" THEN ps[p].ctr.subkeys
                     ELSE ps[p].values.values] \in FetchAbsent(ps[p].op, ps[p].key)

\* one of the num_items reads of a name from data at offset len fails
RECURSIVE NameUnpackFails(_, _, _, _)
NameUnpackFails(data, i, num_items, len) ==
    IF i >= num_items THEN FALSE
    ELSE LET r == tdb_unpack_f(data, len, <<>>)
         IN  r.ret = -1 \/ NameUnpackFails(data, i + 1, num_items, len + r.ret)

\* the subkey record data has a count or a name that reads past its end
CorruptKeys(data) ==
    /\ data.dptr
    /\ LET r == tdb_unpack_d(data, 0, 0)
       IN  r.ret = -1 \/ NameUnpackFails(data, 0, r.d, r.ret)

\* one of the num_values reads of a value from data at offset len fails
RECURSIVE ValueUnpackFails(_, _, _, _)
ValueUnpackFails(data, i, num_values, len) ==
    IF i >= num_values THEN FALSE
    ELSE LET r == tdb_unpack_fdB(data, len)
         IN  r.ret = -1 \/ ValueUnpackFails(data, i + 1, num_values, len + r.ret)

\* the value record data has a count or a value that reads past its end
CorruptValues(data) ==
    /\ data.dptr
    /\ LET r == tdb_unpack_d(data, 0, 0)
       IN  r.ret = -1 \/ ValueUnpackFails(data, 0, r.d, r.ret)

(* C26: corrupt records are errors.  When regdb_fetch_keys or              *)
(* regdb_fetch_values has read a record in which the count or a length     *)
(* reads past the end of the buffer, the call reports an error (-1) and    *)
(* hands no entry to its caller.                                           *)
C26_CorruptIsError ==
    LET r == ps[SeqProc]
    IN  /\ (Done(SeqProc, "fetch_keys") /\ r.got
            /\ CorruptKeys(tdb_fetch_bystring(tdb, FetchKeysPath(r.key))))
           => (r.ret = -1 /\ r.ctr.subkeys = <<>>)
        /\ (Done(SeqProc, "fetch_values") /\ r.got
            /\ CorruptValues(tdb_fetch_bystring(tdb, ValueKey(r.key))))
           => (r.ret = -1 /\ r.values.values = <<>>)

\* process p is inside a fetch
Fetching(p) == ps[p].pc \in {"fetch_wait", "fetch_data", "fetch_seq"}

\* process p is inside regdb_store_keys, after the fetch of the old list
Storing(p) == ps[p].pc \in {"sk_start", "commit", "commit_write"}

\* every transaction of process q ends
TransactionsEnd(q) == [](txn = q => <>(txn # q))

C24_RefcountedHandle ==
    LET l == handles.last
    IN  /\ (l.op \in {"regdb_init", "regdb_open"} /\ l.reg # NULL_REG)
              => (tdb_reg = l.reg /\ tdb_refcount = l.count + 1 /\ l.ok)
        /\ (l.op = "regdb_close" /\ l.count > 0)
              => /\ tdb_refcount = l.count - 1
                 /\ tdb_reg = NULL_REG <=> tdb_refcount = 0
                 /\ tdb_refcount > 0 => tdb_reg = l.reg
        /\ handles.held > 0 => tdb_reg # NULL_REG

\* two opens are in force, the first of two closes has left the handle
C24_Witness ==
    /\ handles.last.op = "regdb_close" /\ handles.last.count = 2
    /\ handles.held = 1 /\ tdb_reg # NULL_REG

(* C28: libnet_conf_create_share on the name of a share that exists        *)
(* returns WERR_ALREADY_EXISTS and leaves the services and their           *)
(* parameters as they were; on a name without share it creates the key of  *)
(* the share, without parameters, when no step of the call fails, and      *)
(* changes nothing else in any case.                                       *)
C28_CreateShare ==
    LET l == lastConf
    IN  l.op = "create_share" =>
          IF l.service \in DOMAIN l.pre
          THEN l.werr = "WERR_ALREADY_EXISTS" /\ smbconf = l.pre
          ELSE /\ l.fault = 0 => l.werr = "WERR_OK"
               /\ smbconf = IF l.werr = "WERR_OK"
                            THEN (l.service :> <<>>) @@ l.pre ELSE l.pre

\* a share with a parameter exists and is created again, and a share has
\* been created beside it
C28_Witness ==
    /\ lastConf.op = "create_share"
    /\ lastConf.service \in DOMAIN lastConf.pre
    /\ lastConf.pre[lastConf.service] # <<>>
    /\ DOMAIN smbconf = Services

(* C29: libnet_conf_set_parameter, libnet_conf_get_parameter and           *)
(* libnet_conf_delete_parameter on a service that does not exist return    *)
(* WERR_NO_SUCH_SERVICE and leave the configuration as it was: the service *)
(* is not created and no value changes.                                    *)
C29_NoSuchService ==
    LET l == lastConf
    IN  (/\ l.op \in {"set_parameter", "get_parameter", "delete_parameter"}
         /\ l.service \notin DOMAIN l.pre)
           => (l.werr = "WERR_NO_SUCH_SERVICE" /\ smbconf = l.pre)

\* a valid parameter is set in a service that does not exist while the
\* other service has a value
C29_Witness ==
    /\ lastConf.op = "set_parameter" /\ lastConf.param = "path"
    /\ lastConf.service \notin DOMAIN lastConf.pre
    /\ lastConf.fault = 0
    /\ \E n \in DOMAIN smbconf : smbconf[n] # <<>>

GlobalCalls == {"set_global_parameter", "get_global_parameter", "delete_global_parameter"}

(* C30: the [global] service is created on demand.  After a                *)
(* libnet_conf_set_global_parameter, libnet_conf_get_global_parameter or   *)
(* libnet_conf_delete_global_parameter that returns success or             *)
(* WERR_INVALID_PARAM the [global] service exists, and a call of which no  *)
(* step fails returns one of the two.                                      *)
C30_GlobalCreated ==
    LET l == lastConf
    IN  l.op \in GlobalCalls =>
          /\ l.werr \in {"WERR_OK", "WERR_INVALID_PARAM"} => GLOBAL_NAME \in DOMAIN smbconf
          /\ l.fault = 0 => l.werr \in {"WERR_OK", "WERR_INVALID_PARAM"}

\* a read of a global parameter that is not set has created [global]
C30_Witness ==
    /\ lastConf.op = "get_global_parameter"
    /\ GLOBAL_NAME \notin DOMAIN lastConf.pre
    /\ lastConf.werr = "WERR_INVALID_PARAM"
    /\ GLOBAL_NAME \in DOMAIN smbconf

\* the names of keys without GLOBAL_NAME, in the order of keys
OtherShares(keys) == SelectSeq(keys, LAMBDA n : n # GLOBAL_NAME)

(* C31: libnet_conf_get_share_names that returns WERR_OK lists every       *)
(* subkey of KEY_SMBCONF once: "global" first when the global share        *)
(* exists, then the other shares in the stored order; the count it returns *)
(* (the length of the list) is the number of subkeys.                      *)
C31_ShareNames ==
    LET l == lastConf
    IN  (l.op = "get_share_names" /\ l.werr = "WERR_OK") =>
          /\ l.names = (IF GLOBAL_NAME \in DOMAIN smbconf THEN <<GLOBAL_NAME>> ELSE <<>>)
                          \o OtherShares(smbconf_keys)
          /\ Len(l.names) = Len(smbconf_keys)

\* the values of the service without the one of the name param
WithoutValue(conf, service, param) ==
    [conf EXCEPT ![service] = [n \in DOMAIN @ \ {param} |-> @[n]]]

(* C32: libnet_conf_get_parameter and libnet_conf_delete_parameter on a    *)
(* service that exists and a parameter that is not set return              *)
(* WERR_INVALID_PARAM when no step fails, never success, and leave every   *)
(* value as it was; libnet_conf_delete_parameter that succeeds on a        *)
(* parameter that is set removes that value and no other, and it succeeds  *)
(* when no step fails.                                                     *)
C32_UnsetParameter ==
    LET l == lastConf
        here == l.service \in DOMAIN l.pre
    IN  /\ (/\ l.op \in {"get_parameter", "delete_parameter"}
             /\ here /\ l.param \notin DOMAIN l.pre[l.service])
               => /\ smbconf = l.pre
                  /\ l.werr # "WERR_OK"
                  /\ l.fault = 0 => l.werr = "WERR_INVALID_PARAM"
        /\ (/\ l.op = "delete_parameter"
             /\ here /\ l.param \in DOMAIN l.pre[l.service])
               => /\ l.fault = 0 => l.werr = "WERR_OK"
                  /\ smbconf = IF l.werr = "WERR_OK"
                               THEN WithoutValue(l.pre, l.service, l.param)
                               ELSE l.pre

\* a parameter that is not set has been deleted from a service that has
\* a value of another name
C32_Witness ==
    /\ lastConf.op = "delete_parameter"
    /\ lastConf.service \in DOMAIN lastConf.pre
    /\ lastConf.param = "workgroup"
    /\ DOMAIN lastConf.pre[lastConf.service] = {"path"}
    /\ lastConf.werr = "WERR_INVALID_PARAM"
    /\ smbconf = lastConf.pre

(* C33: in every state reached by regdb_init, regdb_open and regdb_close,  *)
(* opens that fail and closes with nothing open included, the reference    *)
(* count is not negative and the handle is set exactly when the count is   *)
(* above zero; a regdb_close that finds the count 0 changes neither.       *)
C33_HandleInvariant ==
    /\ tdb_refcount >= 0
    /\ tdb_reg # NULL_REG <=> tdb_refcount > 0
    /\ (handles.last.op = "regdb_close" /\ handles.last.count = 0)
          => (tdb_reg = handles.last.reg /\ tdb_refcount = 0)

(* C34: whenever regdb_init returns true, a bootstrap has committed on the *)
(* connection that is held, since that connection was opened; also when    *)
(* the connection was opened by regdb_open, or by a regdb_init of which    *)
(* the bootstrap failed.                                                   *)
C34_InitSeeds ==
    (handles.last.op = "regdb_init" /\ ~handles.pending /\ handles.last.ok)
       => (tdb_reg # NULL_REG /\ handles.seeded = tdb_reg)

(* C35: a regdb_init that opens the registry and of which the bootstrap    *)
(* returns true leaves a sequence number that differs from the one before  *)
(* the call, also when every built-in key and value was there before.      *)
C35_InitMovesSeqnum ==
    LET l == handles.last
    IN  (l.op = "regdb_init" /\ ~handles.pending /\ l.reg = NULL_REG /\ l.ok)
           => seqnum # l.seqnum

\* the second connection has been opened by a regdb_init whose bootstrap
\* found the records the first one had committed
C35_Witness ==
    /\ handles.last.op = "regdb_init" /\ ~handles.pending
    /\ handles.last.reg = NULL_REG /\ handles.last.ok
    /\ handles.conns = 2 /\ handles.seeded = 2
    /\ handles.last.seqnum > 0
    /\ tdb = ps[SeqProc].pre.tdb

\* the record x is the same, or missing, in the tdb as before the call
SameRecord(x) ==
    LET before == ps[SeqProc].pre.tdb
    IN  /\ x \in DOMAIN tdb <=> x \in DOMAIN before
        /\ x \in DOMAIN tdb => tdb[x] = before[x]

\* the record x belongs to a key below the key P
BelowKey(x, P) ==
    \/ IsPrefix(normalize_reg_path(P) \o <<"/">>, x)
    \/ IsPrefix(ValueKey(P) \o <<"/">>, x)
    \/ IsPrefix(SecdescKey(P) \o <<"/">>, x)

\* the names of the list old that the container ctr holds as well
KeptNames(old, ctr) ==
    {old[i] : i \in {j \in 1..Len(old) : regsubkey_ctr_key_exists(ctr, old[j])}}

(* C36: the frame of regdb_store_keys.  When regdb_store_keys(P, L) has    *)
(* committed, the value record and the security descriptor of P are as     *)
(* before, so is every record of a key that is neither P nor below P, and  *)
(* so are the subkey record and the value record of every child that the   *)
(* old list and L both name, also when L is the old list in another order. *)
C36_StoreKeysFrame ==
    LET r == ps[SeqProc]
    IN  StoreKeysCommitted =>
          /\ SameRecord(ValueKey(r.key)) /\ SameRecord(SecdescKey(r.key))
          /\ \A x \in (DOMAIN tdb \cup DOMAIN r.pre.tdb) \ {normalize_reg_path(r.key)} :
                ~BelowKey(x, r.key) => SameRecord(x)
          /\ \A c \in KeptNames(r.old, r.ctr) :
                /\ SameRecord(normalize_reg_path(ChildKey(r.key, c)))
                /\ SameRecord(ValueKey(ChildKey(r.key, c)))

(* C37: the namespaces are disjoint.  The key of the subkey record of a    *)
(* path differs from the key of the value record and from the key of the   *)
(* security descriptor of every path, also for a path whose first          *)
(* component is one of the prefixes; so a committed regdb_store_keys on     *)
(* such a path leaves the value record and the security descriptor of      *)
(* k\a as they were.                                                       *)
C37_NamespacesDisjoint ==
    LET r == ps[SeqProc]
    IN  StoreKeysCommitted =>
          /\ normalize_reg_path(r.key) \notin {ValueKey(ka), SecdescKey(ka)}
          /\ SameRecord(ValueKey(ka))
          /\ SameRecord(SecdescKey(ka))

\* the bytes of the count and of the names of the list, each with its NUL
RECURSIVE FieldLengths(_)
FieldLengths(names) ==
    IF names = <<>> THEN 4 ELSE StrLen(Head(names)) + 1 + FieldLengths(Tail(names))

(* C38: the encoding of a subkey list with buffer growth.  When            *)
(* regdb_store_keys(P, L) has committed, the subkey record of P has the    *)
(* length of the count and of all the names of L, and regdb_fetch_keys(P)  *)
(* reads the names of L in order from it, also when the encoding needs     *)
(* more than the initial 1024 bytes.                                       *)
C38_BufferGrowth ==
    LET r == ps[SeqProc]
        x == normalize_reg_path(r.key)
    IN  StoreKeysCommitted =>
          /\ x \in DOMAIN tdb
          /\ tdb[x].dsize = FieldLengths(r.ctr.subkeys)
          /\ \A f \in FetchedKeys(tdb, seqnum, r.key) : f.ctr.subkeys = r.ctr.subkeys

\* the entry has a name and a payload
NotDegenerate(e) == e.valuename # <<>> /\ e.size # 0

(* C39: the decoding of values skips the degenerate entries.  A            *)
(* regdb_fetch_values that reads the value record returns the stored       *)
(* entries that have a name and a payload, in the stored order, and their  *)
(* number; the entries without name or without payload are left out, so    *)
(* the number can be below the count of the record.                        *)
C39_SkipsDegenerate ==
    LET r == ps[SeqProc]
        E == StoredEntries(tdb, r.key)
    IN  (Done(SeqProc, "fetch_values") /\ r.got)
           => /\ r.values.values = SelectSeq(E, NotDegenerate)
              /\ r.ret = Len(SelectSeq(E, NotDegenerate))
              /\ r.ret <= Len(E)

\* a record with the count 4 has been fetched and two values were returned
C39_Witness ==
    LET r == ps[SeqProc]
    IN  /\ Done(SeqProc, "fetch_values") /\ r.got
        /\ Len(StoredEntries(tdb, r.key)) = 4
        /\ r.ret = 2
        /\ r.values.values[1].valuename = <<"w">>
        /\ r.values.values[2].valuename = <<"u">>

====
